---- MODULE Spec2Model ----
(***************************************************************************)
(* Model of @struktos/adapter-grpc: one invocation of a method wrapped by  *)
(* StruktosInterceptor.wrapMethod (interceptors/struktos-interceptor.ts),  *)
(* with the request context built by GrpcContextFactory (context/factory)  *)
(* and its cancellation bridge.                                            *)
(*                                                                         *)
(* JavaScript runs one task at a time: transport events and timers are     *)
(* separate tasks, so they interleave with an invocation only where the    *)
(* invocation awaits.  Each action below is one such uninterrupted run.    *)
(***************************************************************************)
EXTENDS Integers, Sequences, FiniteSets, TLC

(***************************************************************************)
(* Bounds of the model.                                                    *)
(***************************************************************************)
MaxMw == 2        \* at most this many middlewares are registered
MaxTime == 3      \* the clock runs from 2 up to this value

(***************************************************************************)
(* grpc status codes (the enum `status` of @grpc/grpc-js) and HttpStatus.OK *)
(***************************************************************************)
OK == 0
CANCELLED == 1
UNKNOWN == 2
INVALID_ARGUMENT == 3
DEADLINE_EXCEEDED == 4
NOT_FOUND == 5
ALREADY_EXISTS == 6
PERMISSION_DENIED == 7
RESOURCE_EXHAUSTED == 8
UNIMPLEMENTED == 12
INTERNAL == 13
UNAVAILABLE == 14
UNAUTHENTICATED == 16
HttpOK == 200

(***************************************************************************)
(* JavaScript values: undefined, Infinity, a number, a Date (its getTime). *)
(***************************************************************************)
Undef == [t |-> "undefined", n |-> 0]
Infty == [t |-> "Infinity", n |-> 0]
Num(n) == [t |-> "number", n |-> n]
DateOf(n) == [t |-> "Date", n |-> n]

\* JavaScript truthiness of such a value
Truthy(v) == \/ v.t = "Infinity"
             \/ v.t = "Date"
             \/ v.t = "number" /\ v.n # 0

(***************************************************************************)
(* Strings whose content the code inspects are sequences of characters.    *)
(***************************************************************************)
Upper == <<"A", "C", "D", "E", "I", "L", "N">>
Lower == <<"a", "c", "d", "e", "i", "l", "n">>

\* String.prototype.toLowerCase on one character
LowerChar(c) ==
  IF \E k \in 1..Len(Upper) : Upper[k] = c
  THEN Lower[CHOOSE k \in 1..Len(Upper) : Upper[k] = c]
  ELSE c

toLowerCase(s) == [k \in 1..Len(s) |-> LowerChar(s[k])]

\* String.prototype.includes
includes(s, sub) ==
  \E k \in 1..(Len(s) - Len(sub) + 1) : SubSeq(s, k, k + Len(sub) - 1) = sub

(***************************************************************************)
(* Status translation (StruktosInterceptor.httpStatusToGrpcStatus).        *)
(***************************************************************************)
httpStatusToGrpcStatusOrUnknown(status) ==
  CASE status = 200 -> OK
    [] status = 400 -> INVALID_ARGUMENT
    [] status = 401 -> UNAUTHENTICATED
    [] status = 403 -> PERMISSION_DENIED
    [] status = 404 -> NOT_FOUND
    [] status = 409 -> ALREADY_EXISTS
    [] status = 429 -> RESOURCE_EXHAUSTED
    [] status = 499 -> CANCELLED
    [] status = 500 -> INTERNAL
    [] status = 501 -> UNIMPLEMENTED
    [] status = 503 -> UNAVAILABLE
    [] status = 504 -> DEADLINE_EXCEEDED
    [] OTHER -> UNKNOWN

httpStatusToGrpcStatus(status) ==
  CASE status = 200 -> OK
    [] status = 400 -> INVALID_ARGUMENT
    [] status = 401 -> UNAUTHENTICATED
    [] status = 403 -> PERMISSION_DENIED
    [] status = 404 -> NOT_FOUND
    [] status = 409 -> ALREADY_EXISTS
    [] status = 429 -> RESOURCE_EXHAUSTED
    [] status = 499 -> CANCELLED
    [] status = 500 -> INTERNAL
    [] status = 501 -> UNIMPLEMENTED
    [] status = 503 -> UNAVAILABLE
    [] status = 504 -> DEADLINE_EXCEEDED
    [] OTHER -> INTERNAL

(***************************************************************************)
(* Errors thrown by middleware, handlers and hooks: the three fields the   *)
(* default transformer reads.                                              *)
(***************************************************************************)
Err(statusCode, status, code) ==
  [statusCode |-> statusCode, status |-> status, code |-> code]

ThrownErrors ==
  { Err(Undef, Undef, Undef),          \* a plain Error
    Err(Undef, Num(404), Undef),       \* an HTTP-style exception (.status)
    Err(Num(418), Undef, Undef),       \* an HTTP status the table lacks
    Err(Num(404), Undef, Num(3)) }     \* a grpc ServiceError, with a statusCode

\* The error the hooks of this model throw
HookError == Err(Undef, Undef, Undef)

\* StruktosInterceptor.defaultErrorTransformer: the code of the status object
defaultErrorTransformerStatusFirst(error) ==
  LET statusCode == IF Truthy(error.statusCode) THEN error.statusCode
                    ELSE error.status
  IN IF Truthy(statusCode) THEN httpStatusToGrpcStatus(statusCode.n)
     ELSE IF error.code.t = "number" THEN error.code.n
     ELSE INTERNAL

defaultErrorTransformer(error) ==
  LET statusCode == IF Truthy(error.statusCode) THEN error.statusCode
                    ELSE error.status
      grpcCode == IF Truthy(statusCode) THEN httpStatusToGrpcStatus(statusCode.n)
                  ELSE INTERNAL
  IN IF error.code.t = "number" THEN error.code.n ELSE grpcCode

\* A configured options.errorTransformer: a user function; this one answers
\* ABORTED-like code UNKNOWN for every error, which the default never does here.
customErrorTransformer(error) == UNKNOWN

(***************************************************************************)
(* Transport errors emitted on the call: message and code.  `related`     *)
(* says whether the error is cancellation-related (its message names a     *)
(* cancellation or a deadline, or its code is CANCELLED); the code never   *)
(* reads it, the properties do.                                            *)
(***************************************************************************)
TransportErrors ==
  { [message |-> <<"C", "A", "N", "C", "E", "L", "L", "E", "D">>, code |-> Undef,
     related |-> TRUE],
    [message |-> <<"C", "a", "n", "c", "e", "l", "e", "d">>, code |-> Undef,
     related |-> TRUE],
    [message |-> <<"D", "e", "a", "d", "l", "i", "n", "e">>, code |-> Num(4),
     related |-> TRUE],
    [message |-> <<"r", "s", "t">>, code |-> Num(1), related |-> TRUE],
    [message |-> <<"r", "s", "t">>, code |-> Num(14), related |-> FALSE],
    [message |-> <<"c", "a", "n", "c", "e", "l">>, code |-> Undef,
     related |-> FALSE] }

\* GrpcContextFactory.isCancellationError
isCancellationErrorExact(error) ==
  LET message == error.message
  IN \/ includes(message, <<"c", "a", "n", "c", "e", "l", "l", "e", "d">>)
     \/ includes(message, <<"c", "a", "n", "c", "e", "l", "e", "d">>)
     \/ includes(message, <<"d", "e", "a", "d", "l", "i", "n", "e">>)
     \/ error.code = Num(1)

isCancellationError(error) ==
  LET message == toLowerCase(error.message)
  IN \/ includes(message, <<"c", "a", "n", "c", "e", "l", "l", "e", "d">>)
     \/ includes(message, <<"c", "a", "n", "c", "e", "l", "e", "d">>)
     \/ includes(message, <<"d", "e", "a", "d", "l", "i", "n", "e">>)
     \/ error.code = Num(1)

(***************************************************************************)
(* Deadlines a call may carry (call.getDeadline()).  The clock of the      *)
(* model starts at 2, so 1 is past, 2 is now and 3 is ahead.               *)
(***************************************************************************)
RawDeadlines ==
  {Undef, Infty} \cup {Num(n) : n \in 1..3} \cup {DateOf(n) : n \in 1..3}

\* GrpcContextFactory.extractDeadline: the Date, as its getTime(), or Undef
extractDeadline(deadline) ==
  IF Truthy(deadline) /\ deadline.t # "Infinity"
  THEN IF deadline.t = "Date" THEN DateOf(deadline.n)
       ELSE IF deadline.t = "number" THEN DateOf(deadline.n)
       ELSE Undef
  ELSE Undef

(***************************************************************************)
(* State.                                                                  *)
(*   options (fixed at construction)                                       *)
(*     middlewares          this.middlewares.length                        *)
(*     enableCancellation   options.enableCancellation !== false           *)
(*     errorTransformer     options.errorTransformer is configured         *)
(*     onContextCreated     options.onContextCreated is configured         *)
(*     onRequestComplete    options.onRequestComplete is configured        *)
(*   the invocation                                                        *)
(*     call       the call object: readable/writable members, callback     *)
(*     pc         where the wrapped method stands                          *)
(*     index      the cursor of executePipeline                            *)
(*     stack      the middlewares awaiting their proceed, innermost last   *)
(*     response   middlewareCtx.response: status, sent                     *)
(*     token      the context's cancellation token and the deadline timer  *)
(*     listeners  the bridge's listeners are registered on the call        *)
(*     handler    the original method: idle, pending, streaming, finished  *)
(*     delivered  the invocations of the caller's callback, in order       *)
(*     contextDeadline   contextData.deadline (absent: Undef)              *)
(*     now        the clock (Date.now())                                   *)
(*   history (read by the properties only)                                 *)
(*     log, phases, caught, chainEnd, explicitCancel, sawCancelling           *)
(***************************************************************************)
VARIABLES middlewares, enableCancellation, errorTransformer, onContextCreated,
          onRequestComplete, call, pc, index, stack, response, token, listeners,
          handler, delivered, contextDeadline, now, log, phases, caught, chainEnd,
          explicitCancel,
          sawCancelling

options == <<middlewares, enableCancellation, errorTransformer, onContextCreated,
             onRequestComplete>>
vars == <<middlewares, enableCancellation, errorTransformer, onContextCreated,
          onRequestComplete, call, pc, index, stack, response, token, listeners,
          handler, delivered, contextDeadline, now, log, phases, caught, chainEnd,
          explicitCancel,
          sawCancelling>>

(***************************************************************************)
(* State outside the wrapped method: the built-in interceptors and the     *)
(* context factory taken alone.                                            *)
(*   createTimeoutInterceptor(timeoutMs)                                   *)
(*     interceptorTimeoutMs  its argument timeoutMs                        *)
(*     timeoutId  the timer it arms: state (none, armed, fired, cleared),  *)
(*                the time it is due, and whether its callback called      *)
(*                context.cancel()                                         *)
(*   createRateLimitInterceptor(maxRequests, windowMs)                     *)
(*     maxRequests, windowMs   its arguments                               *)
(*     requests     the Map of the closure: key -> timestamps              *)
(*     invocations  history: the invocations of the limiter, in order      *)
(*   GrpcContextFactory.createContext                                      *)
(*     metadata        the headers of call.metadata                        *)
(*     methodDef       the descriptor's stream flags                       *)
(*     factoryOptions  generateTraceId, generateRequestId,                 *)
(*                     metadataTransformer                                 *)
(*     contextData     the context createContext returned                  *)
(*     consulted       history: the option functions createContext called  *)
(*     sentMetadata    what wrapMethod handed to call.sendMetadata         *)
(*   StruktosInterceptor.httpStatusToGrpcStatus                            *)
(*     httpStatus   its argument                                           *)
(*     grpcCodes    history: what each translation of httpStatus returned  *)
(***************************************************************************)
VARIABLES interceptorTimeoutMs, timeoutId,
          maxRequests, windowMs, requests, invocations,
          metadata, methodDef, factoryOptions, contextData, consulted,
          sentMetadata,
          httpStatus, grpcCodes

timeoutVars == <<interceptorTimeoutMs, timeoutId>>
limiterVars == <<maxRequests, windowMs, requests, invocations>>
factoryVars == <<metadata, methodDef, factoryOptions, contextData, consulted,
                 sentMetadata>>
VARIABLES callMetadata, contexts, ambient, flow
ambientVars == <<callMetadata, contexts, ambient, flow>>
VARIABLES running, server, interceptor, services, healthStatus, startPc,
          stopPc, result, lifecycle, lastSet
adapterVars == <<running, server, interceptor, services, healthStatus, startPc,
                 stopPc, result, lifecycle, lastSet>>
VARIABLES implementation, given, methodDefinitions, wrapped, ran
wrapVars == <<implementation, given, methodDefinitions, wrapped, ran>>
VARIABLES frames, nextCalls, handlerCalls, pipelinePc
pipelineVars == <<frames, nextCalls, handlerCalls, pipelinePc>>
VARIABLES thrownError, statusObjects
transformerVars == <<thrownError, statusObjects>>
VARIABLES starts, servers
raceVars == <<starts, servers>>
tableVars == <<httpStatus, grpcCodes>>
outside == <<timeoutVars, limiterVars, factoryVars, tableVars, ambientVars, adapterVars, wrapVars, pipelineVars, transformerVars, raceVars>>

\* The state outside one of these parts
outsideTimeout == <<limiterVars, factoryVars, tableVars, ambientVars, adapterVars, wrapVars, pipelineVars, transformerVars, raceVars>>
outsideLimiter == <<timeoutVars, factoryVars, tableVars, ambientVars, adapterVars, wrapVars, pipelineVars, transformerVars, raceVars>>
outsideFactory == <<timeoutVars, limiterVars, tableVars, ambientVars, adapterVars, wrapVars, pipelineVars, transformerVars, raceVars>>
outsideTable == <<timeoutVars, limiterVars, factoryVars, ambientVars, adapterVars, wrapVars, pipelineVars, transformerVars, raceVars>>
outsideAmbient == <<timeoutVars, limiterVars, factoryVars, tableVars, adapterVars, wrapVars, pipelineVars, transformerVars, raceVars>>
outsideAdapter == <<timeoutVars, limiterVars, factoryVars, tableVars, ambientVars, wrapVars, pipelineVars, transformerVars, raceVars>>
outsideWrap == <<timeoutVars, limiterVars, factoryVars, tableVars, ambientVars, adapterVars, pipelineVars, transformerVars, raceVars>>
outsidePipeline == <<timeoutVars, limiterVars, factoryVars, tableVars, ambientVars, adapterVars, wrapVars, transformerVars, raceVars>>
outsideTransformer == <<timeoutVars, limiterVars, factoryVars, tableVars, ambientVars, adapterVars, wrapVars, pipelineVars, raceVars>>
\* The state outside the adapter and its overlapping starts
besideRace == <<timeoutVars, limiterVars, factoryVars, tableVars, ambientVars, wrapVars, pipelineVars, transformerVars>>

\* These parts at rest: no timeout interceptor, no limiter, no context built
NoTimeout ==
  /\ interceptorTimeoutMs = 0
  /\ timeoutId = [state |-> "none", due |-> 0, calledCancel |-> FALSE]

NoLimiter ==
  /\ maxRequests = 0
  /\ windowMs = 0
  /\ requests = <<>>
  /\ invocations = <<>>

NoFactory ==
  /\ metadata = <<>>
  /\ methodDef = <<>>
  /\ factoryOptions = <<>>
  /\ contextData = <<>>
  /\ consulted = <<>>
  /\ sentMetadata = <<>>

NoTable ==
  /\ httpStatus = 0
  /\ grpcCodes = <<>>

(***************************************************************************)
(* Concurrent invocations of wrapped methods (runWithContext).             *)
(*   callMetadata  the metadata of each call                               *)
(*   contexts      the context objects created so far, in creation order;  *)
(*                 an object is known by its position                      *)
(*   ambient       RequestContext.current() of each asynchronous flow      *)
(*                 (0: none)                                               *)
(*   flow          each invocation: where it is, the context its closure   *)
(*                 holds, the contexts its middleware and handler saw,     *)
(*                 whether its call emitted 'cancelled'                    *)
(***************************************************************************)
NoAmbient ==
  /\ callMetadata = <<>>
  /\ contexts = <<>>
  /\ ambient = <<>>
  /\ flow = <<>>

(***************************************************************************)
(* GrpcStruktosAdapter: one adapter and the calls made on it.              *)
(*   running, server, interceptor, services, healthStatus   its fields;    *)
(*                 server is null, a new Server, or a bound one            *)
(*   startPc, stopPc   where a start() and a stop() in flight are          *)
(*   result        how the latest start() or stop() that is over ended     *)
(*   lifecycle     history: hooks and transport calls, each with what      *)
(*                 isRunning() answered at that moment                     *)
(*   lastSet       history: the status last given to each name by the      *)
(*                 constructor, addService or setHealthStatus              *)
(***************************************************************************)
NoAdapter ==
  /\ running = FALSE
  /\ server = "null"
  /\ interceptor = FALSE
  /\ services = {}
  /\ healthStatus = <<>>
  /\ startPc = "idle"
  /\ stopPc = "idle"
  /\ result = "none"
  /\ lifecycle = <<>>
  /\ lastSet = <<>>

(***************************************************************************)
(* StruktosInterceptor.wrapService.                                        *)
(*   implementation     the implementation object: its own entries         *)
(*   given              history: the implementation as it was handed over  *)
(*   methodDefinitions  the Map of registered descriptors                  *)
(*   wrapped            the object wrapService returned                    *)
(*   ran                history: the invocations of wrapped methods, each  *)
(*                      with the handler and the descriptor wrapMethod     *)
(*                      got                                                *)
(***************************************************************************)
NoWrap ==
  /\ implementation = <<>>
  /\ given = <<>>
  /\ methodDefinitions = <<>>
  /\ wrapped = [done |-> FALSE, object |-> <<>>]
  /\ ran = <<>>

(***************************************************************************)
(* executePipeline with middlewares that call proceed any number of times, *)
(* awaited or not.  The cursor is the `index` of the closure and the chain *)
(* is `middlewares` long.                                                  *)
(*   frames        the invocations of middleware.invoke started so far, in *)
(*                 the order they started: the middleware's position, the  *)
(*                 caller of the next() that started it (0:                *)
(*                 executePipeline), and whether it has returned           *)
(*   nextCalls     history: the calls of next(), each with its caller and  *)
(*                 the middleware it started (0: none)                     *)
(*   handlerCalls  how many times wrapMethod called the original method    *)
(*   pipelinePc    where wrapMethod stands: idle, awaiting executePipeline,*)
(*                 returned from it, done                                  *)
(***************************************************************************)
NoPipeline ==
  /\ frames = <<>>
  /\ nextCalls = <<>>
  /\ handlerCalls = 0
  /\ pipelinePc = "idle"

(***************************************************************************)
(* StruktosInterceptor.defaultErrorTransformer taken alone.                *)
(*   thrownError    its argument: the statusCode, status and code of the   *)
(*                  error                                                  *)
(*   statusObjects  history: the code of the status object each call       *)
(*                  returned                                               *)
(***************************************************************************)
NoTransformer ==
  /\ thrownError = <<>>
  /\ statusObjects = <<>>

(***************************************************************************)
(* Calls of start() that overlap on one adapter.                           *)
(*   starts    the calls of start(), in the order they were made: where    *)
(*             each one stands (refused, beforeStart, binding, resolved,   *)
(*             rejected)                                                   *)
(*   servers   the Server objects created, in creation order: the call     *)
(*             that created it and whether its bind succeeded.  In this    *)
(*             part this.server is the position of a Server in `servers`   *)
(***************************************************************************)
NoRace ==
  /\ starts = <<>>
  /\ servers = <<>>

(***************************************************************************)
(* The four call shapes of the transport.  A unary call object has no      *)
(* stream members; the transport hands a callback to unary and             *)
(* client-streaming handlers only.                                         *)
(***************************************************************************)
Calls ==
  { [requestStream |-> rq, responseStream |-> rs,
     readable |-> rq, writable |-> rs, callback |-> ~rs] : rq, rs \in BOOLEAN }

NoCall == [requestStream |-> FALSE, responseStream |-> FALSE,
           readable |-> FALSE, writable |-> FALSE, callback |-> FALSE]

Ev(e, i) == [ev |-> e, i |-> i]

(***************************************************************************)
(* The cancellation token of the RequestContext, with the deadline timer   *)
(* the bridge arms.  timer: none, armed, fired, cleared.                   *)
(***************************************************************************)
NewToken == [cancelled |-> FALSE, onCancel |-> <<>>, ran |-> <<>>,
             timer |-> "none", due |-> 0]

\* clearTimeout(timeoutId): a pending timer is removed, any other is left alone
clearTimeout(t) == IF t.timer = "armed" THEN [t EXCEPT !.timer = "cleared"] ELSE t

\* One registered cancel callback, run.  The bridge registers only
\* "clearDeadlineTimer" (factory.ts, context.onCancel(() => clearTimeout(..))).
RunCallback(t, cb) == IF cb = "clearDeadlineTimer" THEN clearTimeout(t) ELSE t

RECURSIVE RunCallbacks(_, _)
RunCallbacks(t, cbs) ==
  IF cbs = <<>> THEN t
  ELSE RunCallbacks([RunCallback(t, Head(cbs)) EXCEPT !.ran = Append(@, Head(cbs))],
                    Tail(cbs))

\* RequestContext.cancel(): active -> cancelled once, running the callbacks in
\* registration order; a cancelled token stays as it is
Cancel(t) ==
  IF t.cancelled THEN t
  ELSE RunCallbacks([t EXCEPT !.cancelled = TRUE], t.onCancel)

\* RequestContext.onCancel(cb)
OnCancel(t, cb) == [t EXCEPT !.onCancel = Append(@, cb)]

(***************************************************************************)
(* GrpcContextFactory.setupCancellation, the deadline part: the token      *)
(* after it, for a call whose getDeadline() answers `raw`.                 *)
(***************************************************************************)
setupDeadlineNoClear(t, raw, time) ==
  LET deadline == extractDeadline(raw)
  IN IF Truthy(deadline)
     THEN LET timeoutMs == deadline.n - time
          IN IF timeoutMs > 0
             THEN [t EXCEPT !.timer = "armed", !.due = deadline.n]
             ELSE Cancel(t)
     ELSE t

setupDeadline(t, raw, time) ==
  LET deadline == extractDeadline(raw)
  IN IF Truthy(deadline)
     THEN LET timeoutMs == deadline.n - time
          IN IF timeoutMs > 0
             THEN OnCancel([t EXCEPT !.timer = "armed", !.due = deadline.n],
                           "clearDeadlineTimer")
             ELSE Cancel(t)
     ELSE t

(***************************************************************************)
(* Delivering an outcome to the caller.  An entry of `delivered` is one    *)
(* invocation of the callback: error is {} for null or {code}; response is *)
(* "null" or "body".                                                       *)
(***************************************************************************)
ErrorOutcome(code) == [error |-> {code}, response |-> "null"]
BodyOutcome == [error |-> {}, response |-> "body"]

\* StruktosInterceptor.sendErrorResponse
sendErrorResponse(d, hasCallback, resp) ==
  IF ~hasCallback THEN d
  ELSE Append(d, ErrorOutcome(httpStatusToGrpcStatus(resp.status)))

\* StruktosInterceptor.sendCancelledResponse
sendCancelledResponse(d, hasCallback) ==
  IF ~hasCallback THEN d
  ELSE Append(d, ErrorOutcome(CANCELLED))

\* StruktosInterceptor.handleError
handleErrorUntransformed(d, hasCallback, error) ==
  IF ~hasCallback THEN d
  ELSE Append(d, ErrorOutcome(IF error.code.t = "number" THEN error.code.n
                              ELSE UNKNOWN))

handleError(d, hasCallback, error) ==
  IF ~hasCallback THEN d
  ELSE IF errorTransformer
       THEN Append(d, ErrorOutcome(customErrorTransformer(error)))
       ELSE Append(d, ErrorOutcome(defaultErrorTransformer(error)))

(***************************************************************************)
(* Initial state: the interceptor is constructed, a call has arrived and   *)
(* the wrapped method has not run yet.                                     *)
(***************************************************************************)
Init ==
  /\ middlewares \in 0..MaxMw
  /\ enableCancellation \in BOOLEAN
  /\ errorTransformer \in BOOLEAN
  /\ onContextCreated \in BOOLEAN
  /\ onRequestComplete \in BOOLEAN
  /\ call = NoCall
  /\ pc = "received"
  /\ index = 0
  /\ stack = <<>>
  /\ response = [status |-> HttpOK, sent |-> FALSE]
  /\ token = NewToken
  /\ listeners = FALSE
  /\ handler = "idle"
  /\ delivered = <<>>
  /\ contextDeadline = Undef
  /\ now = 2
  /\ log = <<>>
  /\ phases = <<"received">>
  /\ caught = <<>>
  /\ chainEnd = [returned |-> FALSE, sent |-> FALSE, cancelled |-> FALSE,
                 status |-> HttpOK]
  /\ explicitCancel = FALSE
  /\ sawCancelling = FALSE
  /\ NoTimeout
  /\ NoLimiter
  /\ NoFactory
  /\ NoTable
  /\ NoAmbient
  /\ NoAdapter
  /\ NoWrap
  /\ NoPipeline
  /\ NoTransformer
  /\ NoRace

(***************************************************************************)
(* The catch of wrapMethod: handleError(error, callback), and the wrapped  *)
(* method is over.                                                         *)
(***************************************************************************)
Catch(c, error, ph) ==
  /\ delivered' = handleError(delivered, c.callback, error)
  /\ caught' = Append(caught, error)
  /\ phases' = Append(ph, "completed")
  /\ pc' = "done"

\* The steps of runWithContext before fn(context), in the order it takes them
\* (the log entry of setupCancellation carries the time it ran at)
contextStepsHookFirst ==
  <<Ev("createContext", 0)>>
  \o (IF onContextCreated THEN <<Ev("onContextCreated", 0)>> ELSE <<>>)
  \o (IF enableCancellation THEN <<Ev("setupCancellation", now)>> ELSE <<>>)

contextSteps ==
  <<Ev("createContext", 0)>>
  \o (IF enableCancellation THEN <<Ev("setupCancellation", now)>> ELSE <<>>)
  \o (IF onContextCreated THEN <<Ev("onContextCreated", 0)>> ELSE <<>>)

(***************************************************************************)
(* The wrapped method starts: runWithContext creates the context, attaches *)
(* the cancellation bridge, calls the context-created hook and enters fn,  *)
(* which builds the middleware context and starts executePipeline.  All of *)
(* it runs without awaiting.                                               *)
(***************************************************************************)
Begin(c, raw, hookThrows) ==
  /\ pc = "received"
  /\ call' = c
  /\ contextDeadline' = extractDeadline(raw)
  /\ log' = contextSteps
  /\ listeners' = enableCancellation
  /\ token' = IF enableCancellation THEN setupDeadline(NewToken, raw, now)
              ELSE NewToken
  /\ IF onContextCreated /\ hookThrows
     THEN /\ Catch(c, HookError, phases)
          /\ UNCHANGED <<response, index>>
     ELSE /\ response' = [status |-> HttpOK, sent |-> FALSE]
          /\ index' = 0
          /\ phases' = phases \o <<"context-established", "middleware-running">>
          /\ pc' = "next"
          /\ UNCHANGED <<delivered, caught>>
  /\ UNCHANGED <<outside, options, stack, handler, now, chainEnd, explicitCancel, sawCancelling>>

(***************************************************************************)
(* executePipeline.next: start the middleware under the cursor, or return  *)
(* to whoever awaits.                                                      *)
(***************************************************************************)
hasNextOffByOne(i) == i + 1 < middlewares

hasNext(i) == i < middlewares

advanceStays(i) == i

advance(i) == i + 1

\* Where control goes when the running frame returns: to the middleware
\* awaiting on top of the stack, or out of executePipeline
ReturnToHandler(st) == "afterChain"

ReturnTo(st) == IF st = <<>> THEN "afterChain" ELSE "mwPost"

PipelineNext ==
  /\ pc = "next"
  /\ IF hasNext(index)
     THEN /\ index' = advance(index)
          /\ log' = Append(log, Ev("middleware", index + 1))
          /\ stack' = Append(stack, index + 1)
          /\ pc' = "mwPre"
     ELSE /\ pc' = ReturnTo(stack)
          /\ UNCHANGED <<index, log, stack>>
  /\ UNCHANGED <<outside, options, call, response, token, listeners, handler, delivered, now, contextDeadline,
                 phases, caught, chainEnd, explicitCancel, sawCancelling>>

(***************************************************************************)
(* A middleware runs the code it has before proceed.  What it does is the  *)
(* middleware author's choice:                                             *)
(*   pass     await next()                                                 *)
(*   cancel   ctx.context.cancel(); await next()                           *)
(*   skip     return without calling next                                  *)
(*   reject   response.status = s; response.sent = true; return            *)
(*   throw    throw an error                                               *)
(* and after proceed it returns, throws, or writes the response and        *)
(* returns.                                                                *)
(***************************************************************************)
RejectStatuses == {400, 418}

MwProceed(doCancel) ==
  /\ pc = "mwPre"
  /\ token' = IF doCancel THEN Cancel(token) ELSE token
  /\ explicitCancel' = (explicitCancel \/ doCancel)
  /\ log' = Append(log, Ev("proceed", stack[Len(stack)]))
  /\ pc' = "next"
  /\ UNCHANGED <<outside, options, call, index, stack, response, listeners, handler,
                 delivered, now, contextDeadline, phases, caught, chainEnd, sawCancelling>>

MwSkip ==
  /\ pc = "mwPre"
  /\ log' = Append(log, Ev("return", stack[Len(stack)]))
  /\ stack' = SubSeq(stack, 1, Len(stack) - 1)
  /\ pc' = ReturnTo(stack')
  /\ UNCHANGED <<outside, options, call, index, response, token, listeners, handler,
                 delivered, now, contextDeadline, phases, caught, chainEnd, explicitCancel,
                 sawCancelling>>

MwReject(s) ==
  /\ pc = "mwPre"
  /\ response' = [status |-> s, sent |-> TRUE]
  /\ log' = log \o <<Ev("sent", s), Ev("return", stack[Len(stack)])>>
  /\ stack' = SubSeq(stack, 1, Len(stack) - 1)
  /\ pc' = ReturnTo(stack')
  /\ UNCHANGED <<outside, options, call, index, token, listeners, handler, delivered, now, contextDeadline,
                 phases, caught, chainEnd, explicitCancel, sawCancelling>>

\* A throw, before or after proceed: the rejection runs up through every
\* awaiting middleware and executePipeline into the catch of wrapMethod
MwThrow(error) ==
  /\ pc \in {"mwPre", "mwPost"}
  /\ log' = Append(log, Ev("throw", stack[Len(stack)]))
  /\ stack' = <<>>
  /\ Catch(call, error, phases)
  /\ UNCHANGED <<outside, options, call, index, response, token, listeners, handler, now, contextDeadline,
                 chainEnd, explicitCancel, sawCancelling>>

\* A middleware whose proceed has resolved runs the code after it and returns
MwReturn ==
  /\ pc = "mwPost"
  /\ log' = Append(log, Ev("return", stack[Len(stack)]))
  /\ stack' = SubSeq(stack, 1, Len(stack) - 1)
  /\ pc' = ReturnTo(stack')
  /\ UNCHANGED <<outside, options, call, index, response, token, listeners, handler,
                 delivered, now, contextDeadline, phases, caught, chainEnd, explicitCancel,
                 sawCancelling>>

\* A middleware whose proceed has resolved finds the response marked sent by
\* a later middleware, writes another ctx.response.status in the code after
\* its proceed and returns: the response view is a plain object that every
\* middleware of the chain may write at any time
MwReturnOverwrite(s) ==
  /\ pc = "mwPost"
  /\ response.sent
  /\ response.status # s
  /\ response' = [response EXCEPT !.status = s]
  /\ log' = Append(log, Ev("return", stack[Len(stack)]))
  /\ stack' = SubSeq(stack, 1, Len(stack) - 1)
  /\ pc' = ReturnTo(stack')
  /\ UNCHANGED <<outside, options, call, index, token, listeners, handler,
                 delivered, now, contextDeadline, phases, caught, chainEnd, explicitCancel,
                 sawCancelling>>

(***************************************************************************)
(* After executePipeline has returned (wrapMethod, lines 133-155).         *)
(***************************************************************************)
afterChainCancelledFirst(resp, t) ==
  IF t.cancelled THEN "cancelled"
  ELSE IF resp.sent THEN "sent"
  ELSE "handler"

afterChain(resp, t) ==
  IF resp.sent THEN "sent"
  ELSE IF t.cancelled THEN "cancelled"
  ELSE "handler"

ChainEnd == [returned |-> TRUE, sent |-> response.sent,
             cancelled |-> token.cancelled, status |-> response.status]

RespondSentClearsTimer ==
  /\ pc = "afterChain"
  /\ afterChain(response, token) = "sent"
  /\ chainEnd' = ChainEnd
  /\ delivered' = sendErrorResponse(delivered, call.callback, response)
  /\ phases' = phases \o <<"short-circuited", "completed">>
  /\ pc' = "done"
  /\ token' = clearTimeout(token)
  /\ UNCHANGED <<outside, options, call, index, stack, response, listeners, handler,
                 now, contextDeadline, log, caught, explicitCancel, sawCancelling>>

RespondSent ==
  /\ pc = "afterChain"
  /\ afterChain(response, token) = "sent"
  /\ chainEnd' = ChainEnd
  /\ delivered' = sendErrorResponse(delivered, call.callback, response)
  /\ phases' = phases \o <<"short-circuited", "completed">>
  /\ pc' = "done"
  /\ UNCHANGED <<outside, options, call, index, stack, response, token, listeners, handler,
                 now, contextDeadline, log, caught, explicitCancel, sawCancelling>>

RespondCancelled ==
  /\ pc = "afterChain"
  /\ afterChain(response, token) = "cancelled"
  /\ chainEnd' = ChainEnd
  /\ delivered' = sendCancelledResponse(delivered, call.callback)
  /\ phases' = phases \o <<"short-circuited", "completed">>
  /\ pc' = "done"
  /\ UNCHANGED <<outside, options, call, index, stack, response, token, listeners, handler,
                 now, contextDeadline, log, caught, explicitCancel, sawCancelling>>

(***************************************************************************)
(* callOriginalMethod and what follows it in wrapMethod.                   *)
(***************************************************************************)
\* callOriginalMethod's test for a streaming call: a stream member is defined
isStreamingCall(c) == c.writable \/ c.readable

\* The promise of callOriginalMethod has resolved: the completion hook runs and
\* the wrapped method returns; a throwing hook lands in the catch of wrapMethod
ResolvedChecksCancel(d, hookThrows, l, ph) ==
  /\ log' = IF onRequestComplete THEN Append(l, Ev("onRequestComplete", 0)) ELSE l
  /\ LET dc == IF token.cancelled THEN sendCancelledResponse(d, call.callback)
               ELSE d
     IN IF onRequestComplete /\ hookThrows
        THEN /\ delivered' = handleError(dc, call.callback, HookError)
             /\ caught' = Append(caught, HookError)
        ELSE /\ delivered' = dc
             /\ caught' = caught
  /\ phases' = Append(ph, "completed")
  /\ pc' = "done"

Resolved(d, hookThrows, l, ph) ==
  /\ log' = IF onRequestComplete THEN Append(l, Ev("onRequestComplete", 0)) ELSE l
  /\ IF onRequestComplete /\ hookThrows
     THEN /\ delivered' = handleError(d, call.callback, HookError)
          /\ caught' = Append(caught, HookError)
     ELSE /\ delivered' = d
          /\ caught' = caught
  /\ phases' = Append(ph, "completed")
  /\ pc' = "done"

\* The handler's moves while it is being called:
\*   ok       it calls its callback with (null, response)
\*   error    it calls its callback with (error)
\*   throw    it throws
\*   pending  it returns and completes later, if ever
HandlerMoves == {"ok", "error", "throw", "pending"}

CallOriginalMethod(h, error, hookThrows) ==
  /\ pc = "afterChain"
  /\ afterChain(response, token) = "handler"
  /\ chainEnd' = ChainEnd
  /\ LET l == log \o <<Ev("sendMetadata", 0), Ev("handler", 0)>>
         ph == Append(phases, "handler-invoked")
     IN IF isStreamingCall(call) \/ ~call.callback
        THEN \* method(call, callback); resolve()
             /\ h \in {"throw", "pending"}
             /\ IF h = "throw"
                THEN /\ handler' = "finished"
                     /\ log' = l
                     /\ Catch(call, error, ph)
                ELSE /\ handler' = "streaming"
                     /\ Resolved(delivered, hookThrows, l, ph)
        ELSE \* method(call, wrappedCallback)
             CASE h = "ok" ->
                    /\ handler' = "finished"
                    /\ Resolved(Append(delivered, BodyOutcome), hookThrows, l, ph)
               [] h \in {"error", "throw"} ->
                    /\ handler' = "finished"
                    /\ log' = l
                    /\ Catch(call, error, ph)
               [] h = "pending" ->
                    /\ handler' = "pending"
                    /\ log' = l
                    /\ phases' = ph
                    /\ pc' = "handlerPending"
                    /\ UNCHANGED <<delivered, caught>>
  /\ UNCHANGED <<outside, options, call, index, stack, response, token, listeners, now, contextDeadline,
                 explicitCancel, sawCancelling>>

\* A pending unary handler calls the wrapped callback
HandlerCallback(h, error, hookThrows) ==
  /\ pc = "handlerPending"
  /\ handler' = "finished"
  /\ IF h = "ok"
     THEN Resolved(Append(delivered, BodyOutcome), hookThrows, log, phases)
     ELSE /\ log' = log
          /\ Catch(call, error, phases)
  /\ UNCHANGED <<outside, options, call, index, stack, response, token, listeners, now, contextDeadline,
                 chainEnd, explicitCancel, sawCancelling>>

\* A streaming handler ends its stream: through the callback it was given
\* (client-streaming), or on the stream itself
StreamEnd(h, error) ==
  /\ pc = "done"
  /\ handler = "streaming"
  /\ handler' = "finished"
  /\ delivered' = IF ~call.callback THEN delivered
                  ELSE IF h = "ok" THEN Append(delivered, BodyOutcome)
                  ELSE Append(delivered, ErrorOutcome(error.code.n))
  /\ UNCHANGED <<outside, options, call, pc, index, stack, response, token, listeners, now, contextDeadline,
                 log, phases, caught, chainEnd, explicitCancel, sawCancelling>>

(***************************************************************************)
(* The environment: transport events on the call, the clock, the deadline  *)
(* timer.  They run only while the invocation awaits or after it is over.  *)
(***************************************************************************)
Interruptible == pc \in {"mwPre", "mwPost", "handlerPending", "done"}

\* the 'cancelled' listener of setupCancellation
EmitCancelled ==
  /\ Interruptible
  /\ sawCancelling' = TRUE
  /\ IF listeners
     THEN token' = Cancel(token)
     ELSE UNCHANGED token
  /\ UNCHANGED <<outside, explicitCancel, options, call, pc, index, stack, response, listeners, handler,
                 delivered, now, contextDeadline, log, phases, caught, chainEnd>>

\* the 'close' listener of setupCancellation: its body is empty
EmitClose ==
  /\ Interruptible
  /\ UNCHANGED <<outside, vars>>

\* the 'error' listener of setupCancellation
EmitError(error) ==
  /\ Interruptible
  /\ sawCancelling' = (sawCancelling \/ error.related)
  /\ IF listeners /\ isCancellationError(error)
     THEN token' = Cancel(token)
     ELSE UNCHANGED token
  /\ UNCHANGED <<outside, explicitCancel, options, call, pc, index, stack, response, listeners, handler,
                 delivered, now, contextDeadline, log, phases, caught, chainEnd>>

\* Time passes.  Only the deadline timer reads the clock, so the model lets
\* it advance only while that timer is pending.
Tick ==
  /\ Interruptible
  /\ token.timer = "armed"
  /\ now < MaxTime
  /\ now' = now + 1
  /\ UNCHANGED <<outside, options, call, pc, index, stack, response, token, listeners,
                 handler, delivered, contextDeadline, log, phases, caught, chainEnd,
                 explicitCancel, sawCancelling>>

\* the setTimeout callback of setupCancellation
DeadlineTimerFire ==
  /\ Interruptible
  /\ token.timer = "armed"
  /\ now >= token.due
  /\ LET fired == [token EXCEPT !.timer = "fired"]
     IN token' = IF ~fired.cancelled THEN Cancel(fired) ELSE fired
  /\ UNCHANGED <<outside, explicitCancel, options, call, pc, index, stack, response, listeners, handler,
                 delivered, now, contextDeadline, log, phases, caught, chainEnd, sawCancelling>>

Next ==
  \/ \E c \in Calls, raw \in RawDeadlines, hookThrows \in BOOLEAN :
       Begin(c, raw, hookThrows)
  \/ PipelineNext
  \/ \E doCancel \in BOOLEAN : MwProceed(doCancel)
  \/ MwSkip
  \/ \E s \in RejectStatuses : MwReject(s)
  \/ \E error \in ThrownErrors : MwThrow(error)
  \/ MwReturn
  \/ \E s \in RejectStatuses : MwReturnOverwrite(s)
  \/ RespondSent
  \/ RespondCancelled
  \/ \E h \in HandlerMoves, error \in ThrownErrors, hookThrows \in BOOLEAN :
       CallOriginalMethod(h, error, hookThrows)
  \/ \E h \in {"ok", "error"}, error \in ThrownErrors, hookThrows \in BOOLEAN :
       HandlerCallback(h, error, hookThrows)
  \/ \E h \in {"ok", "error"}, error \in {e \in ThrownErrors : e.code.t = "number"} :
       StreamEnd(h, error)
  \/ EmitCancelled
  \/ EmitClose
  \/ \E error \in TransportErrors : EmitError(error)
  \/ Tick
  \/ DeadlineTimerFire

Spec == Init /\ [][Next]_vars

(***************************************************************************)
(* Reading the history.                                                    *)
(***************************************************************************)
Count(e, i) == Cardinality({k \in DOMAIN log : log[k] = Ev(e, i)})

Happened(e, i) == \E k \in DOMAIN log : log[k] = Ev(e, i)

\* Position of the first entry Ev(e, i) of the log; 0 when there is none
Pos(e, i) ==
  IF Happened(e, i) THEN CHOOSE k \in DOMAIN log :
                           /\ log[k] = Ev(e, i)
                           /\ \A j \in 1..(k - 1) : log[j] # Ev(e, i)
  ELSE 0

HandlerInvoked == Happened("handler", 0)

\* Middleware i returned without having called proceed
Declined(i) == Happened("return", i) /\ ~Happened("proceed", i)

\* Middleware i threw
Threw(i) == Happened("throw", i)

Unary(c) == ~c.requestStream /\ ~c.responseStream

Last(q) == q[Len(q)]

(***************************************************************************)
(* C1.  In a chain [m1..mN] whose middlewares all await proceed, one       *)
(* invocation of the wrapped method invokes every mi exactly once, in      *)
(* registration order, and all of them before the original handler.        *)
(* Stated on every state: no middleware is ever invoked twice, middlewares *)
(* start in registration order, and once the chain has returned without    *)
(* any middleware declining or throwing, all N have been invoked, and the  *)
(* handler, if invoked, was invoked after all of them.                     *)
(***************************************************************************)
C1_PipelineOrder ==
  /\ \A i \in 1..MaxMw + 1 : Count("middleware", i) <= 1
  /\ \A i \in 1..MaxMw + 1 : Happened("middleware", i) => i <= middlewares
  /\ \A i, j \in 1..MaxMw + 1 :
       (i < j /\ Happened("middleware", j)) =>
          (Happened("middleware", i) /\ Pos("middleware", i) < Pos("middleware", j))
  /\ (/\ chainEnd.returned
      /\ \A i \in 1..middlewares : ~Declined(i) /\ ~Threw(i))
     => /\ \A i \in 1..middlewares : Count("middleware", i) = 1
        /\ \A i \in 1..middlewares : Count("proceed", i) = 1
        /\ HandlerInvoked =>
             \A i \in 1..middlewares : Pos("middleware", i) < Pos("handler", 0)

\* Two middlewares, both awaiting proceed, and the handler invoked after them
C1_Witness ==
  /\ middlewares = 2
  /\ Happened("proceed", 1) /\ Happened("proceed", 2)
  /\ HandlerInvoked

(***************************************************************************)
(* C2.  If a middleware mk returns without calling proceed, none of        *)
(* mk+1..mN is invoked and the original handler is never invoked, whether  *)
(* or not mk set the response's sent flag.                                 *)
(***************************************************************************)
C2_DeclineStopsHandler ==
  \A k \in 1..middlewares :
     Declined(k) => /\ \A j \in (k + 1)..middlewares : ~Happened("middleware", j)
                    /\ ~HandlerInvoked

(***************************************************************************)
(* C3.  In a unary invocation the caller's callback is invoked at most     *)
(* once, and each invocation is (error-status, null) or (null, body).      *)
(***************************************************************************)
C3_SingleCallback ==
  Unary(call) =>
     /\ Len(delivered) <= 1
     /\ \A k \in DOMAIN delivered :
          \/ delivered[k].error # {} /\ delivered[k].response = "null"
          \/ delivered[k].error = {} /\ delivered[k].response = "body"

(***************************************************************************)
(* C4.  Whenever the pipeline ends an invocation without invoking the      *)
(* handler (response marked sent, or token cancelled), or catches an       *)
(* error, a terminal status is delivered to the caller: once such an       *)
(* invocation is over, the caller has an outcome.                          *)
(***************************************************************************)
ShortCircuited == \E k \in DOMAIN phases : phases[k] = "short-circuited"

C4_OutcomeDelivered ==
  (pc = "done" /\ (ShortCircuited \/ caught # <<>>)) => delivered # <<>>

(***************************************************************************)
(* The status table of the specification (section 4.4): the protocol code  *)
(* of a generic status, "internal" for a status the table lacks.           *)
(***************************************************************************)
TableCode(s) ==
  CASE s = 200 -> 0   [] s = 400 -> 3   [] s = 401 -> 16  [] s = 403 -> 7
    [] s = 404 -> 5   [] s = 409 -> 6   [] s = 429 -> 8   [] s = 499 -> 1
    [] s = 500 -> 13  [] s = 501 -> 12  [] s = 503 -> 14  [] s = 504 -> 4
    [] OTHER -> 13

Attached == \E k \in DOMAIN log : log[k].ev = "setupCancellation"

\* The time setupCancellation ran at
AttachTime == log[CHOOSE k \in DOMAIN log : log[k].ev = "setupCancellation"].i

C6_CancelledOutcome ==
  /\ (chainEnd.returned /\ ~chainEnd.sent /\ chainEnd.cancelled) =>
        /\ delivered = <<[error |-> {1}, response |-> "null"]>>
        /\ ~HandlerInvoked
  /\ (Attached /\ Truthy(contextDeadline) /\ contextDeadline.n <= AttachTime) =>
        token.cancelled

(***************************************************************************)
(* C7.  Phases of an invocation.                                           *)
(***************************************************************************)
FullPaths ==
  { <<"received", "context-established", "middleware-running", "short-circuited",
      "completed">>,
    <<"received", "context-established", "middleware-running", "handler-invoked",
      "completed">> }

IsPrefix(p, q) == Len(p) <= Len(q) /\ SubSeq(q, 1, Len(p)) = p

\* The context is set up before the first middleware: context created, then the
\* bridge attached (if cancellation is enabled), then the hook (if configured)
ContextBeforeMiddleware ==
  Happened("middleware", 1) =>
     /\ Pos("createContext", 0) = 1
     /\ enableCancellation =>
          /\ Attached
          /\ \A k \in DOMAIN log :
               log[k].ev = "setupCancellation" =>
                  /\ Pos("createContext", 0) < k
                  /\ k < Pos("middleware", 1)
                  /\ onContextCreated => k < Pos("onContextCreated", 0)
     /\ onContextCreated =>
          /\ Happened("onContextCreated", 0)
          /\ Pos("onContextCreated", 0) < Pos("middleware", 1)

C8_ErrorsDelivered ==
  \A n \in DOMAIN caught :
     \E k \in DOMAIN delivered :
        delivered[k] = [error |-> {IF errorTransformer
                                   THEN customErrorTransformer(caught[n])
                                   ELSE defaultErrorTransformer(caught[n])},
                        response |-> "null"]

(***************************************************************************)
(* C9.  With cancellation enabled, no deadline and no explicit cancel,     *)
(* after any sequence of transport events the token is cancelled if and    *)
(* only if a 'cancelled' event or a cancellation-related 'error' event has *)
(* occurred; 'close' events and other errors never cancel it.              *)
(***************************************************************************)
C9_BridgeEvents ==
  (Attached /\ ~Truthy(contextDeadline) /\ ~explicitCancel) =>
     (token.cancelled <=> sawCancelling)

C9_Witness ==
  /\ Attached /\ ~Truthy(contextDeadline) /\ ~explicitCancel
  /\ token.cancelled
  /\ sawCancelling

(***************************************************************************)
(* C10.  If the call's deadline is strictly in the future when the bridge  *)
(* is attached, a timer is armed for the deadline, and it cancels the      *)
(* token when it fires, which is not before the deadline; if the token is  *)
(* cancelled earlier by any other path the timer is cleared, and a cleared *)
(* timer never fires.                                                      *)
(***************************************************************************)
C10_TimerState ==
  (Attached /\ Truthy(contextDeadline) /\ contextDeadline.n > AttachTime) =>
     /\ token.timer \in {"armed", "fired", "cleared"}
     /\ token.due = contextDeadline.n
     /\ token.timer = "armed" => ~token.cancelled
     /\ token.timer = "fired" => (token.cancelled /\ now >= token.due)
     /\ token.timer = "cleared" => token.cancelled

C10_TimerStep ==
  /\ token.timer = "cleared" => token'.timer = "cleared"
  /\ (token.timer # "fired" /\ token'.timer = "fired") =>
        (token.timer = "armed" /\ ~token.cancelled /\ token'.cancelled)

C10_DeadlineTimer == [](C10_TimerState) /\ [][C10_TimerStep]_vars

\* The token was cancelled by another path before the deadline: timer cleared
C10_Witness ==
  /\ Attached /\ Truthy(contextDeadline) /\ contextDeadline.n > AttachTime
  /\ token.timer = "cleared"
  /\ token.cancelled

(***************************************************************************)
(* C11.  Cancellation is cooperative: when the token becomes cancelled     *)
(* after the original handler has been invoked, the pipeline neither       *)
(* aborts the handler nor delivers a CANCELLED outcome of its own.  The    *)
(* step that cancels the token leaves the handler, the position of the     *)
(* wrapped method and the caller's outcomes as they are; an invocation     *)
(* whose handler was invoked never went the short-circuit way, no CANCELLED *)
(* reaches its caller, and unless something was thrown or reported as an   *)
(* error the caller's callback is invoked at most once.                    *)
(***************************************************************************)
C11_AfterHandler ==
  HandlerInvoked =>
     /\ ~ShortCircuited
     /\ \A k \in DOMAIN delivered :
          delivered[k] # [error |-> {1}, response |-> "null"]
     /\ Len(delivered) <= 1 + Len(caught)
     /\ caught = <<>> => Len(delivered) <= 1

C11_CancelStep ==
  (HandlerInvoked /\ ~token.cancelled /\ token'.cancelled) =>
     /\ delivered' = delivered
     /\ handler' = handler
     /\ pc' = pc
     /\ phases' = phases

C11_Cooperative == [](C11_AfterHandler) /\ [][C11_CancelStep]_vars

\* The token was cancelled while the unary handler was in flight
C11_Witness ==
  /\ pc = "handlerPending"
  /\ handler = "pending"
  /\ HandlerInvoked
  /\ token.cancelled
  /\ delivered = <<>>

(***************************************************************************)
(* C13.  Once the response's sent flag has been set during an invocation   *)
(* it is terminal: whatever middleware code runs afterwards, the status    *)
(* delivered to the caller is the one in effect when sent was set, and the *)
(* handler is not invoked.  Stated for invocations on a call with a        *)
(* callback that ended without anything thrown.                            *)
(***************************************************************************)
C13_SentTerminal ==
  \A s \in RejectStatuses :
     (Happened("sent", s) /\ pc = "done" /\ call.callback /\ caught = <<>>) =>
        /\ delivered = <<[error |-> {TableCode(s)}, response |-> "null"]>>
        /\ ~HandlerInvoked

(***************************************************************************)
(* The cancellation sources of one invocation, together.  The chain is     *)
(* [createTimeoutInterceptor(timeoutMs), m2]: the timeout interceptor arms *)
(* its timer and awaits next(); m2 is any middleware, which may register   *)
(* cleanup callbacks on the token and may cancel it.  The bridge is        *)
(* attached, so the transport events and the deadline timer act on the     *)
(* same token.                                                             *)
(***************************************************************************)
MaxTimeoutMs == 2     \* timeoutMs of the timeout interceptor is 1..MaxTimeoutMs
MaxCleanups == 2      \* m2 registers at most this many cleanup callbacks

UnaryCall == [requestStream |-> FALSE, responseStream |-> FALSE,
              readable |-> FALSE, writable |-> FALSE, callback |-> TRUE]

Cleanups == <<"cleanupA", "cleanupB">>

CancelInit ==
  /\ middlewares = 2
  /\ enableCancellation = TRUE
  /\ errorTransformer = FALSE
  /\ onContextCreated = FALSE
  /\ onRequestComplete = FALSE
  /\ call = NoCall
  /\ pc = "received"
  /\ index = 0
  /\ stack = <<>>
  /\ response = [status |-> HttpOK, sent |-> FALSE]
  /\ token = NewToken
  /\ listeners = FALSE
  /\ handler = "idle"
  /\ delivered = <<>>
  /\ contextDeadline = Undef
  /\ now = 2
  /\ log = <<>>
  /\ phases = <<"received">>
  /\ caught = <<>>
  /\ chainEnd = [returned |-> FALSE, sent |-> FALSE, cancelled |-> FALSE,
                 status |-> HttpOK]
  /\ explicitCancel = FALSE
  /\ sawCancelling = FALSE
  /\ interceptorTimeoutMs \in 1..MaxTimeoutMs
  /\ timeoutId = [state |-> "none", due |-> 0, calledCancel |-> FALSE]
  /\ NoLimiter
  /\ NoFactory
  /\ NoTable
  /\ NoAmbient
  /\ NoAdapter
  /\ NoWrap
  /\ NoPipeline
  /\ NoTransformer
  /\ NoRace

\* The middleware that is running or awaiting innermost (0: none)
Running == IF stack = <<>> THEN 0 ELSE stack[Len(stack)]

\* createTimeoutInterceptor, the callback of its setTimeout
timeoutCallbackSilent(t) == [t EXCEPT !.cancelled = TRUE]

timeoutCallback(t) == IF ~t.cancelled THEN Cancel(t) ELSE t

\* clearTimeout(timeoutId) of the interceptor's finally
clearTimeoutIdLeft(id) == id

clearTimeoutId(id) == IF id.state = "armed" THEN [id EXCEPT !.state = "cleared"] ELSE id

\* createTimeoutInterceptor.invoke up to its await: setTimeout, next()
TimeoutInvoke ==
  /\ pc = "mwPre"
  /\ Running = 1
  /\ timeoutId' = [state |-> "armed", due |-> now + interceptorTimeoutMs,
                   calledCancel |-> FALSE]
  /\ log' = Append(log, Ev("proceed", 1))
  /\ pc' = "next"
  /\ UNCHANGED <<interceptorTimeoutMs, outsideTimeout, options, call, index,
                 stack, response, token, listeners, handler, delivered, now,
                 contextDeadline, phases, caught, chainEnd, explicitCancel,
                 sawCancelling>>

\* createTimeoutInterceptor.invoke after next() resolved: finally, return
TimeoutFinally ==
  /\ pc = "mwPost"
  /\ Running = 1
  /\ timeoutId' = clearTimeoutId(timeoutId)
  /\ log' = Append(log, Ev("return", 1))
  /\ stack' = SubSeq(stack, 1, Len(stack) - 1)
  /\ pc' = ReturnTo(stack')
  /\ UNCHANGED <<interceptorTimeoutMs, outsideTimeout, options, call, index,
                 response, token, listeners, handler, delivered, now,
                 contextDeadline, phases, caught, chainEnd, explicitCancel,
                 sawCancelling>>

\* the setTimeout callback of the interceptor runs
TimeoutFire ==
  /\ Interruptible
  /\ timeoutId.state = "armed"
  /\ now >= timeoutId.due
  /\ token' = timeoutCallback(token)
  /\ timeoutId' = [timeoutId EXCEPT !.state = "fired",
                                    !.calledCancel = token'.cancelled # token.cancelled]
  /\ UNCHANGED <<interceptorTimeoutMs, outsideTimeout, options, call, pc,
                 index, stack, response, listeners, handler, delivered, now,
                 contextDeadline, log, phases, caught, chainEnd, explicitCancel,
                 sawCancelling>>

\* Time passes while the interceptor's timer is pending
TimeoutTick ==
  /\ Interruptible
  /\ timeoutId.state = "armed"
  /\ now < MaxTime
  /\ now' = now + 1
  /\ UNCHANGED <<outside, options, call, pc, index, stack, response, token, listeners,
                 handler, delivered, contextDeadline, log, phases, caught, chainEnd,
                 explicitCancel, sawCancelling>>

\* m2 registers a cleanup callback: ctx.context.onCancel(cb)
RegisterCleanup ==
  /\ pc = "mwPre"
  /\ Running = 2
  /\ ~token.cancelled
  /\ LET n == Cardinality({k \in DOMAIN token.onCancel :
                             token.onCancel[k] # "clearDeadlineTimer"})
     IN /\ n < MaxCleanups
        /\ n < Len(Cleanups)
        /\ token' = OnCancel(token, Cleanups[n + 1])
  /\ UNCHANGED <<outside, options, call, pc, index, stack, response, listeners,
                 handler, delivered, now, contextDeadline, log, phases, caught,
                 chainEnd, explicitCancel, sawCancelling>>

\* m2 calls next(), after ctx.context.cancel() or not
InnerProceed(doCancel) == Running = 2 /\ MwProceed(doCancel)

\* m2 returns after its next() resolved
InnerReturn == Running = 2 /\ MwReturn

\* m2 throws: the rejection passes the finally of the timeout interceptor,
\* which clears the timer, and lands in the catch of wrapMethod
InnerThrow(error) ==
  /\ pc \in {"mwPre", "mwPost"}
  /\ Running = 2
  /\ timeoutId' = clearTimeoutId(timeoutId)
  /\ log' = log \o <<Ev("throw", 2), Ev("throw", 1)>>
  /\ stack' = <<>>
  /\ Catch(call, error, phases)
  /\ UNCHANGED <<interceptorTimeoutMs, outsideTimeout, options, call, index,
                 response, token, listeners, handler, now, contextDeadline,
                 chainEnd, explicitCancel, sawCancelling>>

CancelNext ==
  \/ \E raw \in RawDeadlines : Begin(UnaryCall, raw, FALSE)
  \/ PipelineNext
  \/ TimeoutInvoke
  \/ RegisterCleanup
  \/ \E doCancel \in BOOLEAN : InnerProceed(doCancel)
  \/ InnerReturn
  \/ InnerThrow(HookError)
  \/ TimeoutFinally
  \/ TimeoutFire
  \/ TimeoutTick
  \/ RespondCancelled
  \/ \E h \in {"ok", "pending"} : CallOriginalMethod(h, HookError, FALSE)
  \/ HandlerCallback("ok", HookError, FALSE)
  \/ EmitCancelled
  \/ \E error \in TransportErrors : EmitError(error)
  \/ Tick
  \/ DeadlineTimerFire

CancelSpec == CancelInit /\ [][CancelNext]_<<vars, outside>>

(***************************************************************************)
(* C12.  Under any interleaving of the cancellation sources of one         *)
(* invocation (transport 'cancelled', cancellation-related 'error',        *)
(* deadline timer, timeout interceptor, explicit cancel) the token goes    *)
(* from active to cancelled at most once and never back, and the cleanup   *)
(* callbacks registered on it, the one clearing the deadline timer         *)
(* included, each run exactly once, in registration order: none has run    *)
(* while the token is active, all have run in that order once it is        *)
(* cancelled, and nothing runs again afterwards.                           *)
(***************************************************************************)
C12_Callbacks ==
  /\ ~token.cancelled => token.ran = <<>>
  /\ token.cancelled => token.ran = token.onCancel
  /\ \A j, k \in DOMAIN token.onCancel :
       token.onCancel[j] = token.onCancel[k] => j = k
  /\ token.timer # "none" =>
       /\ token.onCancel # <<>>
       /\ token.onCancel[1] = "clearDeadlineTimer"

C12_OneWay ==
  token.cancelled => /\ token'.cancelled
                     /\ token'.ran = token.ran

MaxLimit == 2         \* maxRequests is 0..MaxLimit
MaxWindow == 2        \* windowMs is 1..MaxWindow
MaxInvocations == 3   \* at most this many invocations of the limiter
MaxClock == 3         \* the clock of the limiter runs from 1 up to this value

\* ctx.request.ip of an invocation: a peer address, or "" for none
Peers == {"10.0.0.1", ""}

\* const key = ctx.request.ip || 'unknown'
keyOf(ip) == IF ip = "" THEN "unknown" ELSE ip

\* requests.get(key) || []
stored(key) == IF key \in DOMAIN requests THEN requests[key] ELSE <<>>

InWindow(t, windowStart) == t > windowStart

\* timestamps.filter((t) => t > windowStart)
filter(timestamps, windowStart) ==
  SelectSeq(timestamps, LAMBDA t : InWindow(t, windowStart))

\* timestamps.length >= maxRequests
limitReachedStrict(timestamps) == Len(timestamps) > maxRequests

limitReached(timestamps) == Len(timestamps) >= maxRequests

\* timestamps.push(now)
pushNothing(timestamps, time) == timestamps

push(timestamps, time) == Append(timestamps, time)

\* requests.set(key, timestamps)
set(map, key, timestamps) ==
  [k \in DOMAIN map \cup {key} |-> IF k = key THEN timestamps ELSE map[k]]

LimiterInit ==
  /\ maxRequests \in 0..MaxLimit
  /\ windowMs \in 1..MaxWindow
  /\ requests = <<>>
  /\ invocations = <<>>
  /\ now = 1
  /\ middlewares = 1
  /\ enableCancellation = TRUE
  /\ errorTransformer = FALSE
  /\ onContextCreated = FALSE
  /\ onRequestComplete = FALSE
  /\ call = NoCall
  /\ pc = "received"
  /\ index = 0
  /\ stack = <<>>
  /\ response = [status |-> HttpOK, sent |-> FALSE]
  /\ token = NewToken
  /\ listeners = FALSE
  /\ handler = "idle"
  /\ delivered = <<>>
  /\ contextDeadline = Undef
  /\ log = <<>>
  /\ phases = <<"received">>
  /\ caught = <<>>
  /\ chainEnd = [returned |-> FALSE, sent |-> FALSE, cancelled |-> FALSE,
                 status |-> HttpOK]
  /\ explicitCancel = FALSE
  /\ sawCancelling = FALSE
  /\ NoTimeout
  /\ NoFactory
  /\ NoTable
  /\ NoAmbient
  /\ NoAdapter
  /\ NoWrap
  /\ NoPipeline
  /\ NoTransformer
  /\ NoRace

\* Everything but the limiter and the clock
besideLimiter ==
  <<outsideLimiter, options, call, pc, index, stack, response, token,
    listeners, handler, delivered, contextDeadline, log, phases, caught, chainEnd,
    explicitCancel, sawCancelling>>

\* invoke(ctx, next) of the limiter, for a request from `ip`, up to its return
\* or its await
RateLimitInvokeCountsRejected(ip) ==
  /\ Len(invocations) < MaxInvocations
  /\ LET key == keyOf(ip)
         windowStart == now - windowMs
         timestamps == filter(stored(key), windowStart)
     IN /\ requests' = set(requests, key, push(timestamps, now))
        /\ IF limitReached(timestamps)
           THEN invocations' = Append(invocations,
                  [key |-> key, at |-> now, verdict |-> "rejected", status |-> 429,
                   sent |-> TRUE, proceed |-> 0, pending |-> FALSE])
           ELSE invocations' = Append(invocations,
                  [key |-> key, at |-> now, verdict |-> "admitted", status |-> HttpOK,
                   sent |-> FALSE, proceed |-> 1, pending |-> TRUE])
  /\ UNCHANGED <<maxRequests, windowMs, now, besideLimiter>>

RateLimitInvoke(ip) ==
  /\ Len(invocations) < MaxInvocations
  /\ LET key == keyOf(ip)
         windowStart == now - windowMs
         timestamps == filter(stored(key), windowStart)
     IN IF limitReached(timestamps)
        THEN /\ invocations' = Append(invocations,
                  [key |-> key, at |-> now, verdict |-> "rejected", status |-> 429,
                   sent |-> TRUE, proceed |-> 0, pending |-> FALSE])
             /\ UNCHANGED requests
        ELSE /\ requests' = set(requests, key, push(timestamps, now))
             /\ invocations' = Append(invocations,
                  [key |-> key, at |-> now, verdict |-> "admitted", status |-> HttpOK,
                   sent |-> FALSE, proceed |-> 1, pending |-> TRUE])
  /\ UNCHANGED <<maxRequests, windowMs, now, besideLimiter>>

\* The next() an admitted invocation awaits resolves, and invoke returns
RateLimitReturn(i) ==
  /\ i \in DOMAIN invocations
  /\ invocations[i].pending
  /\ invocations' = [invocations EXCEPT ![i].pending = FALSE]
  /\ UNCHANGED <<maxRequests, windowMs, requests, now, besideLimiter>>

\* Date.now() advances
LimiterTick ==
  /\ now < MaxClock
  /\ now' = now + 1
  /\ UNCHANGED <<limiterVars, besideLimiter>>

LimiterNext ==
  \/ \E ip \in Peers : RateLimitInvoke(ip)
  \/ \E i \in 1..MaxInvocations : RateLimitReturn(i)
  \/ LimiterTick

LimiterSpec == LimiterInit /\ [][LimiterNext]_<<vars, outside>>

\* The invocations before the i-th that were admitted for the same key
AdmittedBefore(i) ==
  {j \in 1..(i - 1) : /\ invocations[j].key = invocations[i].key
                       /\ invocations[j].verdict = "admitted"}

(***************************************************************************)
(* C14.  An invocation for key k is rejected if and only if at least       *)
(* maxRequests invocations admitted before it for the same key lie inside  *)
(* the window of the invocation (later than now - windowMs; the instant    *)
(* now - windowMs itself is the subject of C16); a rejected invocation     *)
(* sets status 429, marks the response sent and does not call proceed; an  *)
(* admitted one records the current time and calls proceed exactly once;   *)
(* invocations of other keys do not count.                                 *)
(***************************************************************************)
C14_RejectIffFull ==
  /\ \A i \in DOMAIN invocations :
       LET inv == invocations[i]
           inside == {j \in AdmittedBefore(i) :
                        invocations[j].at > inv.at - windowMs}
       IN /\ inv.verdict \in {"rejected", "admitted"}
          /\ (inv.verdict = "rejected") <=> (Cardinality(inside) >= maxRequests)
          /\ inv.verdict = "rejected" =>
                (inv.status = 429 /\ inv.sent /\ inv.proceed = 0)
          /\ inv.verdict = "admitted" => (inv.proceed = 1 /\ ~inv.sent)
  /\ (invocations # <<>> /\ Last(invocations).verdict = "admitted") =>
       /\ Last(invocations).key \in DOMAIN requests
       /\ Last(requests[Last(invocations).key]) = Last(invocations).at

\* Key "unknown" is full and rejected while another key was admitted
C14_Witness ==
  /\ maxRequests = 1
  /\ Len(invocations) = 3
  /\ invocations[1].key = "unknown" /\ invocations[1].verdict = "admitted"
  /\ invocations[2].key = "10.0.0.1" /\ invocations[2].verdict = "admitted"
  /\ invocations[3].key = "unknown" /\ invocations[3].verdict = "rejected"

(***************************************************************************)
(* C15.  With invocations in flight together and a non-decreasing clock,   *)
(* the number of invocations admitted for one key whose timestamps fall in *)
(* any single window of length windowMs (the instants s .. s+windowMs-1)   *)
(* never exceeds maxRequests.                                              *)
(***************************************************************************)
C15_WindowBound ==
  \A ip \in Peers : \A s \in (1 - MaxWindow)..MaxClock :
     Cardinality({i \in DOMAIN invocations :
                    /\ invocations[i].key = keyOf(ip)
                    /\ invocations[i].verdict = "admitted"
                    /\ s <= invocations[i].at
                    /\ invocations[i].at < s + windowMs}) <= maxRequests

\* Two admitted invocations of one key suspended at next() together, and a
\* third of that key rejected meanwhile
C15_Witness ==
  /\ maxRequests = 2
  /\ Len(invocations) = 3
  /\ \A i \in 1..3 : invocations[i].key = "10.0.0.1"
  /\ invocations[1].pending /\ invocations[2].pending
  /\ invocations[3].verdict = "rejected"

(***************************************************************************)
(* C16.  At an invocation at time now the limiter discards exactly the     *)
(* recorded timestamps older than now - windowMs (t < now - windowMs); a   *)
(* timestamp equal to now - windowMs still counts.  After an admitted      *)
(* invocation the list of its key then holds every admitted timestamp of   *)
(* the key that is not older than now - windowMs.                          *)
(***************************************************************************)
C16_PruneOlder ==
  (invocations # <<>> /\ Last(invocations).verdict = "admitted") =>
     LET n == Len(invocations)
         inv == invocations[n]
     IN \A j \in AdmittedBefore(n) :
           invocations[j].at >= inv.at - windowMs =>
              \E k \in DOMAIN stored(inv.key) :
                 stored(inv.key)[k] = invocations[j].at

(***************************************************************************)
(* GrpcContextFactory.createContext taken alone: the context it builds     *)
(* from the metadata of a call, the method descriptor and the options of   *)
(* the factory.                                                            *)
(***************************************************************************)
\* A JavaScript string
Str(s) == [t |-> "string", s |-> s]

\* a || b, for a string or undefined a
Or(a, b) == IF a.t = "string" /\ a.s # "" THEN a ELSE b

\* a ?? b
Nullish(a, b) == IF a.t = "undefined" THEN b ELSE a

\* An option that holds a function answering `returns`; Undef is an option
\* that is not configured
Fn(returns) == [t |-> "function", returns |-> returns]

\* options.f?.()
CallOptional(f) == IF f.t = "function" THEN f.returns ELSE Undef

\* metadata.get(key): the values of a header; none, an empty one, an id
HeaderValues == {<<>>, <<"">>, <<"id-from-header">>}

Metadatas == [trace : HeaderValues, request : HeaderValues]

MethodDefs == [requestStream : BOOLEAN, responseStream : BOOLEAN]

\* options.generateTraceId / generateRequestId: not configured, or a function
\* answering an id, or one answering the empty string
Generators == {Undef, Fn(Str("id-from-option")), Fn(Str(""))}

\* options.metadataTransformer: not configured, or one of these functions
\*   empty     (metadata) => ({})
\*   echo      (metadata) => ({ customField: String(metadata.get('x-trace-id')) })
\*   override  (metadata) => ({ callType: 'unary', traceId: '', customField: 'x' })
Transformers == {Undef, Fn("empty"), Fn("echo"), Fn("override")}

\* What the configured transformer returns for a metadata
customData(transformer, md) ==
  CASE transformer.returns = "empty" -> <<>>
    [] transformer.returns = "echo" ->
         [customField |-> IF md.trace = <<>> THEN Str("") ELSE Str(md.trace[1])]
    [] transformer.returns = "override" ->
         [callType |-> Str("unary"), traceId |-> Str(""), customField |-> Str("x")]

FactoryOptions ==
  [generateTraceId : Generators, generateRequestId : Generators,
   metadataTransformer : Transformers]

\* The built-in generators of utils/id-generator.ts: a prefix, a time, a
\* random part; never empty
generateTraceId == Str("grpc-time-random")
generateRequestId == Str("req-time-random")

\* GrpcContextFactory.extractTraceId / extractRequestId
extractTraceId(md) == IF Len(md.trace) > 0 THEN Str(md.trace[1]) ELSE Undef
extractRequestId(md) == IF Len(md.request) > 0 THEN Str(md.request[1]) ELSE Undef

\* GrpcContextFactory.determineCallType
determineCallType(def) ==
  IF def.requestStream /\ def.responseStream THEN Str("bidirectional")
  ELSE IF def.requestStream THEN Str("client-streaming")
  ELSE IF def.responseStream THEN Str("server-streaming")
  ELSE Str("unary")

\* Object.assign(target, source)
assignKeepsTarget(target, source) ==
  [k \in DOMAIN target \cup DOMAIN source |->
     IF k \in DOMAIN target THEN target[k] ELSE source[k]]

assign(target, source) ==
  [k \in DOMAIN target \cup DOMAIN source |->
     IF k \in DOMAIN source THEN source[k] ELSE target[k]]

\* extractTraceId(metadata) || (options.generateTraceId?.() ?? generateTraceId())
idGeneratorFirst(extracted, generator, builtin) ==
  Or(Nullish(CallOptional(generator), builtin), extracted)

idOf(extracted, generator, builtin) ==
  Or(extracted, Nullish(CallOptional(generator), builtin))

\* The functions that expression calls, in order: `name` for the configured
\* generator, "builtin" + name for the built-in one
idConsults(extracted, generator, name) ==
  IF extracted.t = "string" /\ extracted.s # "" THEN <<>>
  ELSE IF generator.t = "function"
       THEN IF generator.returns.t = "undefined"
            THEN <<name, "builtin " \o name>>
            ELSE <<name>>
       ELSE <<"builtin " \o name>>

\* GrpcContextFactory.createContext: the fields of the context this model reads
createContext(md, def, opts) ==
  LET built ==
        [traceId |-> idOf(extractTraceId(md), opts.generateTraceId, generateTraceId),
         requestId |-> idOf(extractRequestId(md), opts.generateRequestId,
                            generateRequestId),
         callType |-> determineCallType(def),
         methodPath |-> Str("/example.Greeter/SayHello")]
  IN IF opts.metadataTransformer.t = "function"
     THEN assign(built, customData(opts.metadataTransformer, md))
     ELSE built

\* The option functions createContext calls, in order
createContextConsults(md, opts) ==
  idConsults(extractTraceId(md), opts.generateTraceId, "generateTraceId")
  \o idConsults(extractRequestId(md), opts.generateRequestId, "generateRequestId")
  \o (IF opts.metadataTransformer.t = "function" THEN <<"metadataTransformer">>
      ELSE <<>>)

FactoryInit ==
  /\ metadata \in Metadatas
  /\ methodDef \in MethodDefs
  /\ factoryOptions \in FactoryOptions
  /\ contextData = <<>>
  /\ consulted = <<>>
  /\ sentMetadata = <<>>
  /\ now = 2
  /\ middlewares = 0
  /\ enableCancellation = TRUE
  /\ errorTransformer = FALSE
  /\ onContextCreated = FALSE
  /\ onRequestComplete = FALSE
  /\ call = NoCall
  /\ pc = "received"
  /\ index = 0
  /\ stack = <<>>
  /\ response = [status |-> HttpOK, sent |-> FALSE]
  /\ token = NewToken
  /\ listeners = FALSE
  /\ handler = "idle"
  /\ delivered = <<>>
  /\ contextDeadline = Undef
  /\ log = <<>>
  /\ phases = <<"received">>
  /\ caught = <<>>
  /\ chainEnd = [returned |-> FALSE, sent |-> FALSE, cancelled |-> FALSE,
                 status |-> HttpOK]
  /\ explicitCancel = FALSE
  /\ sawCancelling = FALSE
  /\ NoTimeout
  /\ NoLimiter
  /\ NoTable
  /\ NoAmbient
  /\ NoAdapter
  /\ NoWrap
  /\ NoPipeline
  /\ NoTransformer
  /\ NoRace

\* createContext(call, methodDef) is called
CreateContext ==
  /\ DOMAIN contextData = {}
  /\ contextData' = createContext(metadata, methodDef, factoryOptions)
  /\ consulted' = createContextConsults(metadata, factoryOptions)
  /\ UNCHANGED <<metadata, methodDef, factoryOptions, sentMetadata, outsideFactory,
                 vars>>

\* createResponseMetadata(context): a header is set for an id that is truthy
createResponseMetadata(context) ==
  [trace |-> IF Or(context.traceId, Undef) # Undef
             THEN <<context.traceId.s>> ELSE <<>>,
   request |-> IF Or(context.requestId, Undef) # Undef
               THEN <<context.requestId.s>> ELSE <<>>]

\* wrapMethod, when the handler is to be invoked: the response metadata of the
\* context is built and handed to call.sendMetadata
SendMetadata ==
  /\ DOMAIN contextData # {}
  /\ sentMetadata = <<>>
  /\ sentMetadata' = <<createResponseMetadata(contextData)>>
  /\ UNCHANGED <<metadata, methodDef, factoryOptions, contextData, consulted,
                 outsideFactory, vars>>

FactoryNext == CreateContext \/ SendMetadata

FactorySpec == FactoryInit /\ [][FactoryNext]_<<vars, outside>>

\* createContext has returned
Created == DOMAIN contextData # {}

\* A present id: defined and not empty
Present(v) == v.t = "string" /\ v.s # ""

\* The configured transformer returns no field named k
Untouched(k) ==
  \/ factoryOptions.metadataTransformer.t # "function"
  \/ k \notin DOMAIN customData(factoryOptions.metadataTransformer, metadata)

\* The number of calls of the option function `name` createContext made
Consults(name) == Cardinality({k \in DOMAIN consulted : consulted[k] = name})

\* The id rules of C17 for one id, with `fromHeader` saying when the header's
\* value is to be used: then the id is the header's first value and no
\* generator is consulted; otherwise it is the configured generator's value,
\* or the built-in generator's when none is configured
IdRule(fromHeader, values, id, generator, builtin, name) ==
  IF fromHeader
  THEN /\ id = Str(values[1])
       /\ Consults(name) = 0
       /\ Consults("builtin " \o name) = 0
  ELSE IF generator.t = "function"
       THEN /\ id = generator.returns
            /\ Consults(name) = 1
            /\ Consults("builtin " \o name) = 0
       ELSE /\ id = builtin
            /\ Consults("builtin " \o name) = 1

(***************************************************************************)
(* C17, as claimed.  For traceId and for requestId, createContext uses the *)
(* value of the canonical header exactly when that header is present, and  *)
(* then consults no generator; otherwise the configured generator's value  *)
(* if one is configured; otherwise the built-in generator's.  (Read on     *)
(* contexts whose transformer does not return the id itself.)              *)
(***************************************************************************)
C17_HeaderWhenPresent ==
  Created =>
     /\ Untouched("traceId") =>
          IdRule(Len(metadata.trace) > 0, metadata.trace, contextData.traceId,
                 factoryOptions.generateTraceId, Str("grpc-time-random"),
                 "generateTraceId")
     /\ IdRule(Len(metadata.request) > 0, metadata.request, contextData.requestId,
               factoryOptions.generateRequestId, Str("req-time-random"),
               "generateRequestId")

(***************************************************************************)
(* C17, amended.  The header's value is used exactly when the header is    *)
(* present with a non-empty value; a header whose value is the empty       *)
(* string is treated like an absent one.                                   *)
(***************************************************************************)
C17_HeaderWhenNonEmpty ==
  Created =>
     /\ Untouched("traceId") =>
          IdRule(Len(metadata.trace) > 0 /\ metadata.trace[1] # "",
                 metadata.trace, contextData.traceId,
                 factoryOptions.generateTraceId, Str("grpc-time-random"),
                 "generateTraceId")
     /\ IdRule(Len(metadata.request) > 0 /\ metadata.request[1] # "",
               metadata.request, contextData.requestId,
               factoryOptions.generateRequestId, Str("req-time-random"),
               "generateRequestId")

\* A header with an id and a configured generator: the header's id is used and
\* the generator is not called; the request id comes from the built-in one
C17_Witness ==
  /\ Created
  /\ metadata.trace = <<"id-from-header">>
  /\ factoryOptions.generateTraceId = Fn(Str("id-from-option"))
  /\ contextData.traceId = Str("id-from-header")
  /\ Consults("generateTraceId") = 0
  /\ metadata.request = <<>>
  /\ factoryOptions.generateRequestId = Undef
  /\ contextData.requestId = Str("req-time-random")

(***************************************************************************)
(* C18.  Every context produced by createContext, for every metadata and   *)
(* every configuration (custom generators and a metadata transformer       *)
(* included), has a present (defined, non-empty) traceId and requestId.    *)
(***************************************************************************)
C18_IdsPresent ==
  Created => (Present(contextData.traceId) /\ Present(contextData.requestId))

(***************************************************************************)
(* C19.  For every descriptor and configuration the callType stored in the *)
(* created context is determined by the stream flags alone: (true, true)   *)
(* bidirectional, requestStream only client-streaming, responseStream only *)
(* server-streaming, neither unary; metadata, options and transformer      *)
(* output do not change it.                                                *)
(***************************************************************************)
C19_CallTypeByFlags ==
  Created =>
     contextData.callType =
        (CASE methodDef.requestStream /\ methodDef.responseStream ->
                Str("bidirectional")
           [] methodDef.requestStream /\ ~methodDef.responseStream ->
                Str("client-streaming")
           [] ~methodDef.requestStream /\ methodDef.responseStream ->
                Str("server-streaming")
           [] ~methodDef.requestStream /\ ~methodDef.responseStream ->
                Str("unary"))

(***************************************************************************)
(* C20.  A configured metadata transformer is invoked once, with the raw   *)
(* metadata, and every key/value pair it returns is in the resulting       *)
(* context: on a collision with a field the factory computed the           *)
(* transformer's value is the one in the context; the other fields keep    *)
(* the factory's values.  Without a transformer none is invoked.           *)
(***************************************************************************)
C20_TransformerMerged ==
  Created =>
     LET transformer == factoryOptions.metadataTransformer
     IN IF transformer.t = "function"
        THEN LET returned == customData(transformer, metadata)
             IN /\ Consults("metadataTransformer") = 1
                /\ DOMAIN returned \subseteq DOMAIN contextData
                /\ \A k \in DOMAIN returned : contextData[k] = returned[k]
                /\ transformer.returns = "echo" =>
                      contextData.customField =
                         (IF metadata.trace = <<>> THEN Str("")
                          ELSE Str(metadata.trace[1]))
                /\ transformer.returns = "override" =>
                      (contextData.callType = Str("unary")
                       /\ contextData.traceId = Str(""))
                /\ Present(contextData.methodPath)
        ELSE /\ Consults("metadataTransformer") = 0
             /\ DOMAIN contextData = {"traceId", "requestId", "callType", "methodPath"}

\* The transformer's callType replaced the one the factory computed
C20_Witness ==
  /\ Created
  /\ factoryOptions.metadataTransformer = Fn("override")
  /\ methodDef.requestStream /\ methodDef.responseStream
  /\ contextData.callType = Str("unary")

(***************************************************************************)
(* The status translation taken alone: one status is translated again and  *)
(* again.  The function builds its table anew in every call and reads      *)
(* nothing else.                                                           *)
(***************************************************************************)
MaxStatus == 600
MaxTranslations == 3

\* The statuses handed to the translation
HttpStatuses == 0..MaxStatus

\* No wrapped method is being invoked: the state of wrapMethod at rest
NoInvocation ==
  /\ middlewares = 0
  /\ enableCancellation = TRUE
  /\ errorTransformer = FALSE
  /\ onContextCreated = FALSE
  /\ onRequestComplete = FALSE
  /\ call = NoCall
  /\ pc = "received"
  /\ index = 0
  /\ stack = <<>>
  /\ response = [status |-> HttpOK, sent |-> FALSE]
  /\ token = NewToken
  /\ listeners = FALSE
  /\ handler = "idle"
  /\ delivered = <<>>
  /\ contextDeadline = Undef
  /\ now = 2
  /\ log = <<>>
  /\ phases = <<"received">>
  /\ caught = <<>>
  /\ chainEnd = [returned |-> FALSE, sent |-> FALSE, cancelled |-> FALSE,
                 status |-> HttpOK]
  /\ explicitCancel = FALSE
  /\ sawCancelling = FALSE

TableInit ==
  /\ httpStatus \in HttpStatuses
  /\ grpcCodes = <<>>
  /\ NoInvocation
  /\ NoTimeout
  /\ NoLimiter
  /\ NoFactory
  /\ NoAmbient
  /\ NoAdapter
  /\ NoWrap
  /\ NoPipeline
  /\ NoTransformer
  /\ NoRace

\* One more call of httpStatusToGrpcStatus(httpStatus)
Translate ==
  /\ Len(grpcCodes) < MaxTranslations
  /\ grpcCodes' = Append(grpcCodes, httpStatusToGrpcStatus(httpStatus))
  /\ UNCHANGED <<vars, outsideTable, httpStatus>>

TableNext == Translate

TableSpec == TableInit /\ [][TableNext]_<<vars, outside>>

\* The twelve rows of the table, as the specification lists them
TableRows ==
  {<<200, 0>>, <<400, 3>>, <<401, 16>>, <<403, 7>>, <<404, 5>>, <<409, 6>>,
   <<429, 8>>, <<499, 1>>, <<500, 13>>, <<501, 12>>, <<503, 14>>, <<504, 4>>}

(***************************************************************************)
(* C21.  The status translation is fixed, deterministic and total: each of *)
(* the twelve generic statuses 200, 400, 401, 403, 404, 409, 429, 499,     *)
(* 500, 501, 503, 504 gives its one protocol code (OK, INVALID_ARGUMENT,   *)
(* UNAUTHENTICATED, PERMISSION_DENIED, NOT_FOUND, ALREADY_EXISTS,          *)
(* RESOURCE_EXHAUSTED, CANCELLED, INTERNAL, UNIMPLEMENTED, UNAVAILABLE,    *)
(* DEADLINE_EXCEEDED), every other status gives INTERNAL, and every        *)
(* translation of one status gives the same code.                          *)
(***************************************************************************)
C21_TableTotal ==
  \A k \in 1..Len(grpcCodes) :
    /\ \A row \in TableRows : httpStatus = row[1] => grpcCodes[k] = row[2]
    /\ (\A row \in TableRows : httpStatus # row[1]) => grpcCodes[k] = 13
    /\ grpcCodes[k] = grpcCodes[1]

\* A status of the table was translated twice
C21_Witness ==
  /\ httpStatus = 504
  /\ Len(grpcCodes) >= 2
  /\ grpcCodes[2] = DEADLINE_EXCEEDED

(***************************************************************************)
(* C22.  In every invocation in which the original handler is invoked,     *)
(* metadata carrying the trace id and the request id of the context is     *)
(* sent on the call exactly once and before the handler is invoked, so     *)
(* every successful response carries both identifiers; an invocation that  *)
(* ends short-circuited or cancelled sends none.  Here: the metadata       *)
(* wrapMethod sends holds both ids of the context.                         *)
(***************************************************************************)
C22_MetadataCarriesIds ==
  /\ Len(sentMetadata) <= 1
  /\ \A k \in 1..Len(sentMetadata) :
       /\ sentMetadata[k].trace = <<contextData.traceId.s>>
       /\ sentMetadata[k].request = <<contextData.requestId.s>>

(***************************************************************************)
(* C23.  The request-complete hook is invoked exactly once for each        *)
(* invocation that completes normally, after the outcome of the invocation *)
(* has been delivered (for a streaming call: after the handler's stream    *)
(* has finished), and never for an invocation that was short-circuited,    *)
(* cancelled before the handler, or ended with an error.                   *)
(***************************************************************************)
C23_HookOnCompletion ==
  /\ Count("onRequestComplete", 0) <= 1
  /\ Happened("onRequestComplete", 0) =>
       /\ handler = "finished"
       /\ ~ShortCircuited
  /\ (pc = "done" /\ onRequestComplete /\ caught = <<>> /\ ~ShortCircuited) =>
       Happened("onRequestComplete", 0)

(***************************************************************************)
(* Concurrent invocations: every wrapped method runs runWithContext for    *)
(* its own call and the invocations interleave at their awaits.            *)
(* RequestContext.run and RequestContext.current belong to @struktos/core: *)
(* run(data, f) makes a context over data the ambient context of the       *)
(* asynchronous flow of f, and the ambient context is cleared when f has   *)
(* returned or thrown.                                                     *)
(***************************************************************************)
MaxCalls == 2

Invocations == 1..MaxCalls

\* The metadata of a call: with or without a trace-id header
CallMetadatas == [trace : {<<>>, <<"id-from-header">>}, request : {<<>>}]

\* A factory without options and the descriptor of a unary method
NoOptions == [generateTraceId |-> Undef, generateRequestId |-> Undef,
              metadataTransformer |-> Undef]
UnaryDef == [requestStream |-> FALSE, responseStream |-> FALSE]

\* The object createContext returns: a new one in every call
sharedContext(cs) == 1

newContext(cs) == Len(cs) + 1

\* The heap with object c holding v
store(cs, c, v) ==
  [k \in 1..(IF c > Len(cs) THEN c ELSE Len(cs)) |-> IF k = c THEN v ELSE cs[k]]

AmbientInit ==
  /\ callMetadata \in [Invocations -> CallMetadatas]
  /\ contexts = <<>>
  /\ ambient = [i \in Invocations |-> 0]
  /\ flow = [i \in Invocations |->
               [pc |-> "received", context |-> 0, seen |-> <<>>,
                cancelled |-> FALSE]]
  /\ NoInvocation
  /\ NoTimeout
  /\ NoLimiter
  /\ NoFactory
  /\ NoTable
  /\ NoAdapter
  /\ NoWrap
  /\ NoPipeline
  /\ NoTransformer
  /\ NoRace

\* The wrapped method is invoked for call i: createContext, RequestContext.run,
\* RequestContext.current, setupCancellation, then fn(context) up to the first
\* middleware
RunWithContext(i) ==
  /\ flow[i].pc = "received"
  /\ LET c == newContext(contexts)
         contextData_ == createContext(callMetadata[i], UnaryDef, NoOptions)
     IN /\ contexts' = store(contexts, c,
                             [call |-> i, data |-> contextData_,
                              cancelled |-> FALSE])
        /\ ambient' = [ambient EXCEPT ![i] = c]
        /\ flow' = [flow EXCEPT ![i].pc = "pipeline",
                                ![i].context = ambient'[i]]
  /\ UNCHANGED <<callMetadata, outsideAmbient, vars>>

\* The middleware of invocation i runs: it is handed the context of the closure
MiddlewareInvoke(i) ==
  /\ flow[i].pc = "pipeline"
  /\ flow' = [flow EXCEPT ![i].pc = "afterChain",
                          ![i].seen = Append(@, flow[i].context)]
  /\ UNCHANGED <<callMetadata, contexts, ambient, outsideAmbient, vars>>

\* The handler of invocation i runs: method(call, callback) gets no context and
\* reads the ambient one
HandlerInvoke(i) ==
  /\ flow[i].pc = "afterChain"
  /\ flow' = [flow EXCEPT ![i].pc = "handler",
                          ![i].seen = Append(@, ambient[i])]
  /\ UNCHANGED <<callMetadata, contexts, ambient, outsideAmbient, vars>>

\* fn returns: after the sent or cancelled branch, or after the handler
FnReturn(i) ==
  /\ flow[i].pc \in {"afterChain", "handler"}
  /\ flow' = [flow EXCEPT ![i].pc = "returned"]
  /\ ambient' = [ambient EXCEPT ![i] = 0]
  /\ UNCHANGED <<callMetadata, contexts, outsideAmbient, vars>>

\* fn throws: a middleware or the handler threw
FnThrow(i) ==
  /\ flow[i].pc \in {"pipeline", "afterChain", "handler"}
  /\ flow' = [flow EXCEPT ![i].pc = "threw"]
  /\ ambient' = [ambient EXCEPT ![i] = 0]
  /\ UNCHANGED <<callMetadata, contexts, outsideAmbient, vars>>

\* Call i emits 'cancelled': the listener setupCancellation attached cancels
\* the context it closed over
CallCancelled(i) ==
  /\ enableCancellation
  /\ flow[i].pc # "received"
  /\ ~flow[i].cancelled
  /\ flow' = [flow EXCEPT ![i].cancelled = TRUE]
  /\ contexts' = [contexts EXCEPT ![flow[i].context].cancelled = TRUE]
  /\ UNCHANGED <<callMetadata, ambient, outsideAmbient, vars>>

AmbientNext ==
  \E i \in Invocations :
    \/ RunWithContext(i)
    \/ MiddlewareInvoke(i)
    \/ HandlerInvoke(i)
    \/ FnReturn(i)
    \/ FnThrow(i)
    \/ CallCancelled(i)

AmbientSpec == AmbientInit /\ [][AmbientNext]_<<vars, outside>>

(***************************************************************************)
(* C24.  Under any interleaving of concurrent invocations each invocation  *)
(* has its own freshly created context: the context its middleware and its *)
(* handler see carries the trace id, the request and the cancellation      *)
(* token of its own call, no other invocation holds or replaces it, and    *)
(* the ambient context is cleared once the invocation's function has       *)
(* returned or thrown.                                                     *)
(***************************************************************************)
C24_OwnContext ==
  \A i \in Invocations :
    flow[i].pc # "received" =>
      LET c == flow[i].context
      IN /\ c \in DOMAIN contexts
         /\ contexts[c].call = i
         /\ \A j \in Invocations \ {i} :
              flow[j].pc # "received" => flow[j].context # c
         /\ \A k \in DOMAIN flow[i].seen : flow[i].seen[k] = c
         /\ callMetadata[i].trace # <<>> =>
              contexts[c].data.traceId = Str(callMetadata[i].trace[1])
         /\ contexts[c].cancelled = flow[i].cancelled
         /\ flow[i].pc \in {"returned", "threw"} => ambient[i] = 0

\* Two invocations with the same trace-id header are in flight together, the
\* one that began later is already in its handler, and only its call was
\* cancelled
C24_Witness ==
  /\ flow[1].pc = "handler" /\ flow[2].pc = "afterChain"
  /\ flow[1].context = 2 /\ flow[2].context = 1
  /\ callMetadata[1].trace # <<>> /\ callMetadata[1] = callMetadata[2]
  /\ flow[1].cancelled /\ ~flow[2].cancelled
  /\ Len(flow[1].seen) = 2

(***************************************************************************)
(* C25.  The timeout interceptor arms one timer on entry and clears it     *)
(* once proceed has resolved or thrown.  It cancels the token if and only  *)
(* if its timer expires, timeoutMs after entry or later, while proceed is  *)
(* still pending and the token is not yet cancelled; a chain that finishes *)
(* before the timer expires never has cancel called by it, also when       *)
(* proceed throws.                                                         *)
(***************************************************************************)
\* The interceptor's proceed is pending: it has called next() and has neither
\* returned nor passed on a throw
ProceedPending ==
  Happened("proceed", 1) /\ ~Happened("return", 1) /\ ~Happened("throw", 1)

C25_TimerState ==
  /\ Count("proceed", 1) <= 1
  /\ Happened("proceed", 1) <=> timeoutId.state # "none"
  /\ timeoutId.state = "armed" => ProceedPending
  /\ timeoutId.state = "fired" => now >= timeoutId.due
  /\ timeoutId.calledCancel => timeoutId.state = "fired" /\ token.cancelled

C25_TimerStep ==
  /\ timeoutId.state \in {"fired", "cleared"} => timeoutId' = timeoutId
  /\ timeoutId.state = "armed" /\ timeoutId'.state = "fired" =>
       /\ ProceedPending
       /\ now >= timeoutId.due
       /\ timeoutId'.calledCancel = ~token.cancelled
       /\ token'.cancelled
       /\ token.cancelled => token' = token
  /\ timeoutId.state = "armed" /\ timeoutId'.state = "cleared" =>
       /\ ~ProceedPending'
       /\ token' = token

C25_TimeoutInterceptor ==
  [](C25_TimerState) /\ [][C25_TimerStep]_<<vars, outside>>

\* proceed threw before the timer was due: the timer was cleared and the
\* interceptor never called cancel
C25_Witness ==
  /\ timeoutId.state = "cleared"
  /\ Happened("throw", 1)
  /\ now < timeoutId.due
  /\ ~timeoutId.calledCancel
  /\ ~token.cancelled

(***************************************************************************)
(* The adapter: construction, init, addService, setHealthStatus, start and *)
(* stop.  start() and stop() are asynchronous and the other calls may fall *)
(* between their steps; a caller has at most one start() and one stop()    *)
(* in flight.  The lifecycle hooks are all assigned.                       *)
(***************************************************************************)
MaxStarts == 2

\* ServingStatus
SERVING == 1
NOT_SERVING == 2
SERVICE_UNKNOWN == 3

\* The names asked for: overall health, a registered service, a name nobody
\* registers, the key of addHealthCheckService
ServiceNames == {"greeter.Greeter"}
SetNames == {"", "greeter.Greeter", "other.Service"}
Names == {"", "greeter.Greeter", "other.Service", "__health_check_enabled__"}

\* Map.set
mapSet(map, key, value) ==
  [k \in DOMAIN map \cup {key} |-> IF k = key THEN value ELSE map[k]]

\* getHealthStatus(serviceName)
getHealthStatus(serviceName) ==
  IF serviceName \in DOMAIN healthStatus THEN healthStatus[serviceName]
  ELSE SERVICE_UNKNOWN

\* An entry of the history: what happened, and isRunning() at that moment
Life(e, r) == [ev |-> e, running |-> r]

\* The number of entries of the history that are one of evs
Lives(evs) == Cardinality({k \in DOMAIN lifecycle : lifecycle[k].ev \in evs})

AdapterInit ==
  /\ running = FALSE
  /\ server = "null"
  /\ interceptor = FALSE
  /\ services = {}
  /\ healthStatus = mapSet(<<>>, "", SERVING)
  /\ startPc = "idle"
  /\ stopPc = "idle"
  /\ result = "none"
  /\ lifecycle = <<>>
  /\ lastSet = mapSet(<<>>, "", SERVING)
  /\ NoInvocation
  /\ NoTimeout
  /\ NoLimiter
  /\ NoFactory
  /\ NoTable
  /\ NoAmbient
  /\ NoWrap
  /\ NoPipeline
  /\ NoTransformer
  /\ NoRace

\* init(middlewares)
AdapterInitCall ==
  /\ ~interceptor
  /\ interceptor' = TRUE
  /\ lifecycle' = Append(lifecycle, Life("onInit", running))
  /\ UNCHANGED <<running, server, services, healthStatus, startPc, stopPc,
                 result, lastSet, outsideAdapter, vars>>

\* addService(definition, implementation)
AddService(serviceName) ==
  /\ services' = services \cup {serviceName}
  /\ healthStatus' = mapSet(healthStatus, serviceName, SERVING)
  /\ lastSet' = mapSet(lastSet, serviceName, SERVING)
  /\ UNCHANGED <<running, server, interceptor, startPc, stopPc, result,
                 lifecycle, outsideAdapter, vars>>

\* setHealthStatus(serviceName, status)
SetHealthStatus(serviceName, status) ==
  /\ healthStatus' = mapSet(healthStatus, serviceName, status)
  /\ lastSet' = mapSet(lastSet, serviceName, status)
  /\ UNCHANGED <<running, server, interceptor, services, startPc, stopPc,
                 result, lifecycle, outsideAdapter, vars>>

\* start(): the guard of its first line
alreadyRunningNever(r) == FALSE

alreadyStarting(r) ==
  r \/ \E i \in DOMAIN starts : starts[i] \in {"beforeStart", "binding"}

alreadyRunning(r) == r

\* start() is called: rejected at once, or up to await this.onBeforeStart?.()
StartCall ==
  /\ startPc = "idle"
  /\ IF alreadyRunning(running)
     THEN /\ result' = "gRPC server is already running"
          /\ UNCHANGED <<startPc, lifecycle>>
     ELSE /\ Lives({"onBeforeStart"}) < MaxStarts
          /\ lifecycle' = Append(lifecycle, Life("onBeforeStart", running))
          /\ startPc' = "beforeStart"
          /\ UNCHANGED result
  /\ UNCHANGED <<running, server, interceptor, services, healthStatus, stopPc,
                 lastSet, outsideAdapter, vars>>

\* start() after the hook: new Server, the services, addHealthCheckService,
\* bindAsync
StartBind ==
  /\ startPc = "beforeStart"
  /\ server' = "new"
  /\ healthStatus' = mapSet(healthStatus, "__health_check_enabled__", SERVING)
  /\ lifecycle' = Append(lifecycle, Life("bindAsync", running))
  /\ startPc' = "binding"
  /\ UNCHANGED <<running, interceptor, services, stopPc, result, lastSet,
                 outsideAdapter, vars>>

\* The callback of bindAsync without error: running is set, then the hook runs
afterBindHookFirst(lc) ==
  lc \o <<Life("onAfterStart", FALSE), Life("bound", TRUE)>>

afterBind(lc) ==
  lc \o <<Life("bound", TRUE), Life("onAfterStart", TRUE)>>

\* The callback of bindAsync
BindDone(error) ==
  /\ startPc = "binding"
  /\ startPc' = "idle"
  /\ IF error
     THEN /\ lifecycle' = Append(lifecycle, Life("bind failed", running))
          /\ result' = "start rejected"
          /\ UNCHANGED <<running, server>>
     ELSE /\ running' = TRUE
          /\ server' = "bound"
          /\ lifecycle' = afterBind(lifecycle)
          /\ result' = "start resolved"
  /\ UNCHANGED <<interceptor, services, healthStatus, stopPc, lastSet,
                 outsideAdapter, vars>>

\* stop(): the guard of its first line
stopsAtOnce(r, s) == ~r \/ s = "null"

\* stop() is called: it returns at once, or runs up to
\* await this.onBeforeStop?.()
StopCall ==
  /\ stopPc = "idle"
  /\ IF stopsAtOnce(running, server)
     THEN /\ result' = "stop resolved at once"
          /\ UNCHANGED <<stopPc, lifecycle>>
     ELSE /\ lifecycle' = Append(lifecycle, Life("onBeforeStop", running))
          /\ stopPc' = "beforeStop"
          /\ UNCHANGED result
  /\ UNCHANGED <<running, server, interceptor, services, healthStatus, startPc,
                 lastSet, outsideAdapter, vars>>

\* stop() after the hook: tryShutdown
StopShutdown ==
  /\ stopPc = "beforeStop"
  /\ lifecycle' = Append(lifecycle, Life("tryShutdown", running))
  /\ stopPc' = "shuttingDown"
  /\ UNCHANGED <<running, server, interceptor, services, healthStatus, startPc,
                 result, lastSet, outsideAdapter, vars>>

\* The callback of tryShutdown
ShutdownDone ==
  /\ stopPc = "shuttingDown"
  /\ running' = FALSE
  /\ server' = "null"
  /\ lifecycle' = lifecycle \o <<Life("shut down", FALSE),
                                 Life("onAfterStop", FALSE)>>
  /\ stopPc' = "idle"
  /\ result' = "stop resolved"
  /\ UNCHANGED <<interceptor, services, healthStatus, startPc, lastSet,
                 outsideAdapter, vars>>

AdapterNext ==
  \/ AdapterInitCall
  \/ \E serviceName \in ServiceNames : AddService(serviceName)
  \/ \E serviceName \in SetNames, status \in {SERVING, NOT_SERVING} :
       SetHealthStatus(serviceName, status)
  \/ StartCall
  \/ StartBind
  \/ \E error \in BOOLEAN : BindDone(error)
  \/ StopCall
  \/ StopShutdown
  \/ ShutdownDone

AdapterSpec == AdapterInit /\ [][AdapterNext]_<<vars, outside>>

(***************************************************************************)
(* C26.  After any sequence of addService, setHealthStatus, start and stop *)
(* getHealthStatus(name) is the status last set for name (SERVING from     *)
(* registration, SERVING for the overall key "" from construction), and    *)
(* SERVICE_UNKNOWN for every name that was never registered and never set. *)
(***************************************************************************)
C26_HealthStatus ==
  \A name \in Names :
    getHealthStatus(name) =
      IF name \in DOMAIN lastSet THEN lastSet[name] ELSE 3

\* The fields of the adapter, and the position of the last entry of the
\* history that is one of evs (0: none)
adapterFields == <<running, server, interceptor, services, healthStatus>>

LastLife(evs) ==
  IF Lives(evs) = 0 THEN 0
  ELSE CHOOSE k \in DOMAIN lifecycle :
         /\ lifecycle[k].ev \in evs
         /\ \A j \in DOMAIN lifecycle : j > k => lifecycle[j].ev \notin evs

(***************************************************************************)
(* C27.  start() on a running adapter is rejected with 'gRPC server is     *)
(* already running' and leaves the server and the adapter as they are;     *)
(* stop() on an adapter that is not running completes without error and    *)
(* changes nothing; isRunning() is true exactly from a successful bind     *)
(* until the next shutdown has completed.                                  *)
(***************************************************************************)
C27_Running ==
  running <=> /\ LastLife({"bound", "shut down"}) > 0
              /\ lifecycle[LastLife({"bound", "shut down"})].ev = "bound"

C27_Calls ==
  /\ (startPc = "idle" /\ startPc' = "beforeStart") => ~running
  /\ (result' # result /\ result' = "gRPC server is already running") =>
       /\ running
       /\ UNCHANGED <<adapterFields, startPc, stopPc, lifecycle>>
  /\ (stopPc = "idle" /\ stopPc' = "beforeStop") => running
  /\ (result' # result /\ result' = "stop resolved at once") =>
       /\ ~running
       /\ UNCHANGED <<adapterFields, startPc, stopPc, lifecycle>>
  /\ (startPc = "idle" /\ stopPc = "idle" /\ UNCHANGED <<startPc, stopPc>>) =>
       UNCHANGED <<running, server>>

C27_StartStop == [](C27_Running) /\ [][C27_Calls]_<<vars, outside>>

\* start() was called while the adapter was running, a stop() being in
\* flight, and was rejected
C27_Witness ==
  /\ result = "gRPC server is already running"
  /\ running
  /\ server = "bound"
  /\ stopPc = "shuttingDown"

\* The history without the init hook, and what may directly follow an entry
StartStop == SelectSeq(lifecycle, LAMBDA e : e.ev # "onInit")

Follows(ev) ==
  CASE ev = "onBeforeStart" -> {"bindAsync"}
    [] ev = "bindAsync" -> {"bound", "bind failed"}
    [] ev = "bind failed" -> {"onBeforeStart"}
    [] ev = "bound" -> {"onAfterStart"}
    [] ev = "onAfterStart" -> {"onBeforeStop"}
    [] ev = "onBeforeStop" -> {"tryShutdown"}
    [] ev = "tryShutdown" -> {"shut down"}
    [] ev = "shut down" -> {"onAfterStop"}
    [] ev = "onAfterStop" -> {"onBeforeStart"}

MaxRan == 2

\* The keys of implementation objects, and the values of their entries:
\* functions and a string
MethodNames == {"SayHello", "SayGoodbye", "nonFunction"}
EntryValues == {[t |-> "function", f |-> "handlerA"],
                [t |-> "function", f |-> "handlerB"],
                [t |-> "string", f |-> "value"]}

\* Objects with some of the keys
Implementations ==
  UNION {[keys -> EntryValues] : keys \in SUBSET MethodNames}

\* Registered descriptors: of a unary and of a server-streaming method
Descriptor(serviceName, methodName, responseStream) ==
  [service |-> serviceName, method |-> methodName,
   path |-> "/" \o serviceName \o "/" \o methodName,
   requestStream |-> FALSE, responseStream |-> responseStream]

MethodDefinitionMaps ==
  UNION {[keys -> BOOLEAN] : keys \in SUBSET {"SayHello", "SayGoodbye"}}

\* methodDefinitions.get(methodName) || { ...synthesized }
methodDefSynthesized(serviceName, methodName, defs) ==
  Descriptor(serviceName, methodName, FALSE)

methodDefOf(serviceName, methodName, defs) ==
  IF methodName \in DOMAIN defs THEN defs[methodName]
  ELSE Descriptor(serviceName, methodName, FALSE)

\* wrapMethod(originalMethod.bind(implementation), methodDef): the wrapped
\* function, known by what it closes over
wrapMethod(method, methodDef_) ==
  [t |-> "function", f |-> "wrapped", method |-> method, methodDef |-> methodDef_]

\* wrapService(serviceName, implementation, methodDefinitions)
wrapService(serviceName, impl, defs) ==
  [methodName \in DOMAIN impl |->
     IF impl[methodName].t # "function" THEN impl[methodName]
     ELSE wrapMethod(impl[methodName].f,
                     methodDefOf(serviceName, methodName, defs))]

WrapInit ==
  /\ implementation \in Implementations
  /\ given = implementation
  /\ \E flags \in MethodDefinitionMaps :
       methodDefinitions =
         [m \in DOMAIN flags |-> Descriptor("example.Greeter", m, flags[m])]
  /\ wrapped = [done |-> FALSE, object |-> <<>>]
  /\ ran = <<>>
  /\ NoInvocation
  /\ NoTimeout
  /\ NoLimiter
  /\ NoFactory
  /\ NoTable
  /\ NoAmbient
  /\ NoAdapter
  /\ NoPipeline
  /\ NoTransformer
  /\ NoRace

\* wrapService('example.Greeter', implementation, methodDefinitions)
WrapService ==
  /\ ~wrapped.done
  /\ wrapped' = [done |-> TRUE,
                 object |-> wrapService("example.Greeter", implementation,
                                        methodDefinitions)]
  /\ UNCHANGED <<implementation, given, methodDefinitions, ran, outsideWrap,
                 vars>>

\* A wrapped method is invoked: the pipeline runs with what wrapMethod got
InvokeWrapped(methodName) ==
  /\ wrapped.done
  /\ methodName \in DOMAIN wrapped.object
  /\ wrapped.object[methodName].f = "wrapped"
  /\ Len(ran) < MaxRan
  /\ ran' = Append(ran, [name |-> methodName,
                         method |-> wrapped.object[methodName].method,
                         methodDef |-> wrapped.object[methodName].methodDef])
  /\ UNCHANGED <<implementation, given, methodDefinitions, wrapped,
                 outsideWrap, vars>>

WrapNext ==
  \/ WrapService
  \/ \E methodName \in MethodNames : InvokeWrapped(methodName)

WrapSpec == WrapInit /\ [][WrapNext]_<<vars, outside>>

\* The path of a synthesized descriptor, as the specification gives it:
\* /<service>/<method>
ConventionalPath(methodName) ==
  CASE methodName = "SayHello" -> "/example.Greeter/SayHello"
    [] methodName = "SayGoodbye" -> "/example.Greeter/SayGoodbye"
    [] methodName = "nonFunction" -> "/example.Greeter/nonFunction"

\* The descriptor a wrapped method has to run with
DescriptorFor(methodName) ==
  IF methodName \in DOMAIN methodDefinitions
  THEN methodDefinitions[methodName]
  ELSE [service |-> "example.Greeter", method |-> methodName,
        path |-> ConventionalPath(methodName),
        requestStream |-> FALSE, responseStream |-> FALSE]

(***************************************************************************)
(* C29.  wrapService returns an object with exactly the entries of the     *)
(* implementation: every function-valued entry is replaced by a wrapped    *)
(* function that runs the pipeline with that method's registered           *)
(* descriptor (or, if none is registered, a synthesized unary descriptor   *)
(* with path /<service>/<method>), every other entry is passed through     *)
(* unchanged, and the implementation object itself is not modified.        *)
(***************************************************************************)
C29_WrapService ==
  /\ implementation = given
  /\ wrapped.done =>
       /\ DOMAIN wrapped.object = DOMAIN given
       /\ \A methodName \in DOMAIN given :
            IF given[methodName].t = "function"
            THEN /\ wrapped.object[methodName].f = "wrapped"
                 /\ wrapped.object[methodName].method = given[methodName].f
                 /\ wrapped.object[methodName].methodDef =
                      DescriptorFor(methodName)
            ELSE wrapped.object[methodName] = given[methodName]
  /\ \A k \in DOMAIN ran :
       /\ given[ran[k].name].t = "function"
       /\ ran[k].method = given[ran[k].name].f
       /\ ran[k].methodDef = DescriptorFor(ran[k].name)

\* An object with a registered streaming method, an unregistered method and
\* a string entry was wrapped, and both methods were invoked
C29_Witness ==
  /\ DOMAIN given = MethodNames
  /\ given["nonFunction"].t = "string"
  /\ DOMAIN methodDefinitions = {"SayHello"}
  /\ methodDefinitions["SayHello"].responseStream
  /\ Len(ran) = 2
  /\ ran[1].name = "SayHello" /\ ran[1].methodDef.responseStream
  /\ ran[2].name = "SayGoodbye" /\ ~ran[2].methodDef.responseStream

(***************************************************************************)
(* C30, as claimed.  When the incoming metadata contains a trace-id header *)
(* and a custom trace-id generator is configured, the generator's return   *)
(* value wins: the traceId of the context is the generator's value, not    *)
(* the header's.  (Read on contexts whose transformer does not return the  *)
(* id itself.)                                                             *)
(***************************************************************************)
C30_GeneratorWins ==
  ( /\ Created
    /\ Len(metadata.trace) > 0
    /\ factoryOptions.generateTraceId.t = "function"
    /\ Untouched("traceId") ) =>
      contextData.traceId = factoryOptions.generateTraceId.returns

(***************************************************************************)
(* C30, amended.  When the incoming metadata contains a trace-id header    *)
(* with a non-empty value and a custom trace-id generator is configured,   *)
(* the header wins: the traceId of the context is the header's value and   *)
(* the generator is not called.  The generator's value is used only when   *)
(* the header's value is the empty string.                                 *)
(***************************************************************************)
C30_HeaderWins ==
  ( /\ Created
    /\ Len(metadata.trace) > 0
    /\ factoryOptions.generateTraceId.t = "function"
    /\ Untouched("traceId") ) =>
      IF metadata.trace[1] # ""
      THEN /\ contextData.traceId = Str(metadata.trace[1])
           /\ Consults("generateTraceId") = 0
      ELSE /\ contextData.traceId = factoryOptions.generateTraceId.returns
           /\ Consults("generateTraceId") = 1

\* A header with an id and a generator answering another value: the context
\* has the header's id
C30_Witness ==
  /\ Created
  /\ metadata.trace = <<"id-from-header">>
  /\ factoryOptions.generateTraceId = Fn(Str(""))
  /\ factoryOptions.metadataTransformer = Undef
  /\ contextData.traceId = Str("id-from-header")
  /\ Consults("generateTraceId") = 0
  /\ Consults("builtin generateTraceId") = 0

(***************************************************************************)
(* C31.  In a wrapped method the original handler is invoked only after    *)
(* the whole middleware chain has returned, the code after proceed of      *)
(* every middleware that awaited proceed included: when the handler starts *)
(* no middleware is running or awaiting, and every middleware that called  *)
(* proceed returned before.  So the timer of the timeout interceptor is    *)
(* cleared when the handler starts, its callback has not cancelled the     *)
(* token, and while the handler executes the timer stays cleared and does  *)
(* not cancel the token.                                                   *)
(***************************************************************************)
ChainReturned ==
  /\ stack = <<>>
  /\ \A i \in 1..middlewares :
       Happened("proceed", i) =>
         /\ Happened("return", i)
         /\ Pos("return", i) < Pos("handler", 0)

C31_AtHandler ==
  HandlerInvoked =>
    /\ ChainReturned
    /\ timeoutId.state = "cleared"
    /\ ~timeoutId.calledCancel

C31_WhileHandler ==
  (handler = "pending" \/ handler' = "pending") => timeoutId' = timeoutId

CancelledAtStart ==
  /\ Attached
  /\ Truthy(contextDeadline)
  /\ contextDeadline.n <= AttachTime
  /\ \E k \in DOMAIN phases : phases[k] = "context-established"

C32_ChainStillRuns ==
  CancelledAtStart =>
    /\ token.cancelled
    /\ pc # "next" =>
         \A i \in 1..middlewares :
            (i = 1 \/ Happened("proceed", i - 1)) => Happened("middleware", i)
    /\ (~chainEnd.returned /\ caught = <<>>) => delivered = <<>>
    /\ ~HandlerInvoked
    /\ (chainEnd.returned /\ ~chainEnd.sent) =>
         delivered = <<[error |-> {1}, response |-> "null"]>>

(***************************************************************************)
(* executePipeline taken alone, with middlewares that call proceed as      *)
(* often as they like and await it or not.  A call of next() runs to the   *)
(* first await of the middleware it starts without interruption, so the    *)
(* test of the cursor and its increment are one step.  A middleware that   *)
(* does not await its proceed may return while the middlewares it started  *)
(* are still running.                                                      *)
(***************************************************************************)
MaxChain == 3        \* at most this many middlewares in the chain
MaxNextCalls == 4    \* at most this many calls of next() in one invocation

\* vars without the cursor and the length of the chain
besidePipeline ==
  <<enableCancellation, errorTransformer, onContextCreated, onRequestComplete,
    call, pc, stack, response, token, listeners, handler, delivered,
    contextDeadline, now, log, phases, caught, chainEnd, explicitCancel,
    sawCancelling>>

PipelineInit ==
  /\ middlewares \in 0..MaxChain
  /\ enableCancellation = TRUE
  /\ errorTransformer = FALSE
  /\ onContextCreated = FALSE
  /\ onRequestComplete = FALSE
  /\ call = NoCall
  /\ pc = "received"
  /\ index = 0
  /\ stack = <<>>
  /\ response = [status |-> HttpOK, sent |-> FALSE]
  /\ token = NewToken
  /\ listeners = FALSE
  /\ handler = "idle"
  /\ delivered = <<>>
  /\ contextDeadline = Undef
  /\ now = 2
  /\ log = <<>>
  /\ phases = <<"received">>
  /\ caught = <<>>
  /\ chainEnd = [returned |-> FALSE, sent |-> FALSE, cancelled |-> FALSE,
                 status |-> HttpOK]
  /\ explicitCancel = FALSE
  /\ sawCancelling = FALSE
  /\ NoPipeline
  /\ NoTimeout
  /\ NoLimiter
  /\ NoFactory
  /\ NoTable
  /\ NoAmbient
  /\ NoAdapter
  /\ NoWrap
  /\ NoTransformer
  /\ NoRace

\* executePipeline.next, called by `by`: if (index < length) the middleware
\* under the cursor is taken, the cursor moves on and the middleware is invoked
next(by) ==
  IF hasNext(index)
  THEN /\ index' = advance(index)
       /\ frames' = Append(frames, [mw |-> index + 1, by |-> by,
                                    returned |-> FALSE])
       /\ nextCalls' = Append(nextCalls, [by |-> by, started |-> index + 1])
  ELSE /\ nextCalls' = Append(nextCalls, [by |-> by, started |-> 0])
       /\ UNCHANGED <<index, frames>>

\* wrapMethod reaches executePipeline: let index = 0; await next()
ExecutePipeline ==
  /\ pipelinePc = "idle"
  /\ next(0)
  /\ pipelinePc' = "await"
  /\ UNCHANGED <<middlewares, besidePipeline, outsidePipeline, handlerCalls>>

\* a middleware that is running calls its proceed, once more
Proceed(f) ==
  /\ f \in DOMAIN frames
  /\ ~frames[f].returned
  /\ Len(nextCalls) < MaxNextCalls
  /\ next(f)
  /\ UNCHANGED <<middlewares, besidePipeline, outsidePipeline, handlerCalls,
                 pipelinePc>>

\* a middleware returns
MiddlewareReturn(f) ==
  /\ f \in DOMAIN frames
  /\ ~frames[f].returned
  /\ frames' = [frames EXCEPT ![f].returned = TRUE]
  /\ UNCHANGED <<middlewares, index, besidePipeline, outsidePipeline, nextCalls,
                 handlerCalls, pipelinePc>>

\* the next() executePipeline awaits has resolved: executePipeline returns
PipelineReturn ==
  /\ pipelinePc = "await"
  /\ \A f \in DOMAIN frames : frames[f].by = 0 => frames[f].returned
  /\ pipelinePc' = "returned"
  /\ UNCHANGED <<middlewares, index, besidePipeline, outsidePipeline, frames,
                 nextCalls, handlerCalls>>

\* wrapMethod after the chain, nothing sent and nothing cancelled:
\* callOriginalMethod
CallHandler ==
  /\ pipelinePc = "returned"
  /\ handlerCalls' = handlerCalls + 1
  /\ pipelinePc' = "done"
  /\ UNCHANGED <<middlewares, index, besidePipeline, outsidePipeline, frames,
                 nextCalls>>

PipelineSpecNext ==
  \/ ExecutePipeline
  \/ \E f \in 1..MaxChain : Proceed(f)
  \/ \E f \in 1..MaxChain : MiddlewareReturn(f)
  \/ PipelineReturn
  \/ CallHandler

PipelineSpec == PipelineInit /\ [][PipelineSpecNext]_<<vars, outside>>

(***************************************************************************)
(* C33.  Within one invocation the pipeline cursor only increases, so      *)
(* every middleware is invoked at most once, also when a middleware calls  *)
(* proceed more than once or several calls are in flight together: a       *)
(* repeated proceed starts the next middleware not yet started, or does    *)
(* nothing when none is left; it never runs a middleware again and never   *)
(* runs the handler.                                                       *)
(***************************************************************************)
C33_Once ==
  /\ \A i \in 1..MaxChain :
       Cardinality({f \in DOMAIN frames : frames[f].mw = i}) <=
         (IF i <= middlewares THEN 1 ELSE 0)
  /\ index = Len(frames)
  /\ handlerCalls <= 1
  /\ handlerCalls = 1 => pipelinePc = "done"

C33_Step ==
  /\ index' >= index
  /\ \A f \in DOMAIN frames : f \in DOMAIN frames' /\ frames'[f].mw = frames[f].mw
  /\ nextCalls' # nextCalls =>
       /\ handlerCalls' = handlerCalls
       /\ IF \E i \in 1..middlewares : \A f \in DOMAIN frames : frames[f].mw # i
          THEN LET i == CHOOSE j \in 1..middlewares :
                          /\ \A f \in DOMAIN frames : frames[f].mw # j
                          /\ \A k \in 1..(j - 1) : \E f \in DOMAIN frames : frames[f].mw = k
               IN /\ Len(frames') = Len(frames) + 1
                  /\ frames'[Len(frames')].mw = i
                  /\ nextCalls'[Len(nextCalls')].started = i
          ELSE /\ frames' = frames
               /\ nextCalls'[Len(nextCalls')].started = 0

C33_CursorOnlyIncreases == [](C33_Once) /\ [][C33_Step]_<<vars, outside>>

\* The first middleware of three called proceed three times: the calls started
\* the second and the third middleware and then nothing, and no handler ran
C33_Witness ==
  /\ middlewares = 3
  /\ nextCalls = <<[by |-> 0, started |-> 1], [by |-> 1, started |-> 2],
                   [by |-> 1, started |-> 3], [by |-> 1, started |-> 0]>>
  /\ handlerCalls = 0

(***************************************************************************)
(* C34.  The deadline timer armed by the bridge is cleared only through    *)
(* the token's cancel callback: the step that clears it is the step that   *)
(* cancels the token.  No step that ends the wrapped method (normal        *)
(* completion, short-circuit, error handling) touches the token or its     *)
(* timer, so an invocation that is over before its deadline and was not    *)
(* cancelled still has its timer armed; when that timer fires, which is    *)
(* not before the deadline, it cancels the token of the invocation that    *)
(* is already over, and the caller's outcomes stay as they are.            *)
(***************************************************************************)
C34_StaysArmed ==
  ( /\ pc = "done"
    /\ Attached /\ Truthy(contextDeadline) /\ contextDeadline.n > AttachTime
    /\ ~token.cancelled ) => token.timer = "armed"

C34_TimerStep ==
  /\ (token.timer = "armed" /\ token'.timer = "cleared") =>
        /\ ~token.cancelled /\ token'.cancelled
        /\ \E k \in DOMAIN token'.ran : token'.ran[k] = "clearDeadlineTimer"
  /\ (token.timer = "armed" /\ pc # "done" /\ pc' = "done") => token' = token
  /\ (pc = "done" /\ token.timer = "armed" /\ token'.timer # "armed") =>
        /\ token'.cancelled
        /\ delivered' = delivered
        /\ token'.timer = "fired" => now >= token.due

\* The event loop: time passes while a timer is pending, and a timer that is
\* due has its callback run
FairSpec == Spec /\ WF_vars(Tick) /\ WF_vars(DeadlineTimerFire)

C34_Expires ==
  (pc = "done" /\ token.timer = "armed") ~> (token.cancelled /\ token.timer # "armed")

C34_TimerLeftArmed ==
  [](C34_StaysArmed) /\ [][C34_TimerStep]_vars /\ C34_Expires

\* A unary call completed with a response before its deadline; the timer
\* fired at the deadline and cancelled the token of the finished invocation
C34_Witness ==
  /\ pc = "done"
  /\ handler = "finished"
  /\ delivered = <<BodyOutcome>>
  /\ chainEnd.returned /\ ~chainEnd.cancelled
  /\ ~explicitCancel /\ ~sawCancelling
  /\ token.timer = "fired"
  /\ token.cancelled

(***************************************************************************)
(* C35.  When a unary handler reports a failure by calling its callback    *)
(* with an error, the error goes through the configured error transformer, *)
(* or the default one: in that step the caller's callback is invoked with  *)
(* the transformed status and a null response, which is its only           *)
(* invocation (the default transformer keeps a numeric code of the error), *)
(* the request-complete hook is not invoked, and nothing is delivered or   *)
(* logged afterwards.                                                      *)
(***************************************************************************)
\* The status the specification expects for an error: the configured
\* transformer's answer, else the error's numeric code, else the translation
\* of its HTTP-like status, else internal
ExpectedStatus(e) ==
  IF errorTransformer THEN 2
  ELSE IF e.code.t = "number" THEN e.code.n
  ELSE IF Truthy(e.statusCode) THEN TableCode(e.statusCode.n)
  ELSE IF Truthy(e.status) THEN TableCode(e.status.n)
  ELSE 13

C35_ErrorStep ==
  /\ \A e \in ThrownErrors, hookThrows \in BOOLEAN :
       ( /\ Unary(call)
         /\ \/ CallOriginalMethod("error", e, hookThrows)
            \/ HandlerCallback("error", e, hookThrows) ) =>
           /\ delivered' = <<[error |-> {ExpectedStatus(e)}, response |-> "null"]>>
           /\ ~\E k \in DOMAIN log' : log'[k].ev = "onRequestComplete"
           /\ pc' = "done" /\ handler' = "finished"
  /\ (Unary(call) /\ pc = "done" /\ handler = "finished") =>
       (delivered' = delivered /\ log' = log)

C35_HandlerErrorTransformed == [][C35_ErrorStep]_vars

\* A pending unary handler called back with an error carrying code 3 and a
\* statusCode, the hook being configured: the caller has code 3, once, and the
\* hook did not run
C35_Witness ==
  /\ Unary(call) /\ call.callback
  /\ ~errorTransformer /\ onRequestComplete
  /\ handler = "finished" /\ pc = "done"
  /\ HandlerInvoked
  /\ caught = <<Err(Num(404), Undef, Num(3))>>
  /\ delivered = <<[error |-> {3}, response |-> "null"]>>
  /\ ~Happened("onRequestComplete", 0)

(***************************************************************************)
(* The default error transformer applied to errors of every shape: each    *)
(* of statusCode and status absent, zero, in the table or not in it; the   *)
(* code absent, a number (zero included) or a string such as the error     *)
(* codes of Node.                                                          *)
(***************************************************************************)
MaxTransforms == 2     \* the transformer is applied at most this many times

HttpLikes == {Undef, Num(0), Num(404), Num(418), Num(503)}

ErrorCodes == {Undef, Num(0), Num(3), Num(14), Str("ECONNRESET")}

ErrorValues ==
  {Err(statusCode, status, code) :
     statusCode \in HttpLikes, status \in HttpLikes, code \in ErrorCodes}

TransformerInit ==
  /\ thrownError \in ErrorValues
  /\ statusObjects = <<>>
  /\ NoInvocation
  /\ NoTimeout
  /\ NoLimiter
  /\ NoFactory
  /\ NoTable
  /\ NoAmbient
  /\ NoAdapter
  /\ NoWrap
  /\ NoPipeline
  /\ NoRace

\* One more call of defaultErrorTransformer(thrownError)
Transform ==
  /\ Len(statusObjects) < MaxTransforms
  /\ statusObjects' = Append(statusObjects, defaultErrorTransformer(thrownError))
  /\ UNCHANGED <<vars, outsideTransformer, thrownError>>

TransformerNext == Transform

TransformerSpec == TransformerInit /\ [][TransformerNext]_<<vars, outside>>

(***************************************************************************)
(* C36.  The default error transformer delivers: the error's own code when *)
(* that is a number, whatever HTTP-like status the error has and whatever  *)
(* the number is; otherwise the status-table translation of the error's    *)
(* statusCode, or of its status when statusCode is falsy, when that one is *)
(* truthy; otherwise INTERNAL.                                             *)
(***************************************************************************)
C36_DefaultTransformer ==
  \A k \in DOMAIN statusObjects :
     LET e == thrownError
         nonZero(v) == v.t = "number" /\ v.n # 0
     IN statusObjects[k] =
          IF e.code.t = "number" THEN e.code.n
          ELSE IF nonZero(e.statusCode) THEN TableCode(e.statusCode.n)
          ELSE IF nonZero(e.status) THEN TableCode(e.status.n)
          ELSE 13

\* An error with numeric code 0 and statusCode 404: the code delivered is 0
C36_Witness ==
  /\ thrownError = Err(Num(404), Num(503), Num(0))
  /\ statusObjects = <<0, 0>>

(***************************************************************************)
(* C37.  After any sequence of invocations of one rate limiter the list of *)
(* timestamps stored for a key is never longer than maxRequests, and with  *)
(* maxRequests <= 0 no list is stored at all: the state kept per key is    *)
(* bounded by the configured limit.                                        *)
(***************************************************************************)
C37_ListBounded ==
  /\ \A key \in DOMAIN requests : Len(requests[key]) <= maxRequests
  /\ maxRequests <= 0 => DOMAIN requests = {}

\* The list of a key is as long as the limit allows, after three invocations
\* of that key at different times, the oldest timestamp pruned
C37_Witness ==
  /\ maxRequests = 2
  /\ windowMs = 2
  /\ Len(invocations) = 3
  /\ \A i \in 1..3 : invocations[i].key = "10.0.0.1" /\ invocations[i].verdict = "admitted"
  /\ requests["10.0.0.1"] = <<2, 3>>

(***************************************************************************)
(* C38.  A rejected invocation of the rate limiter leaves what the limiter *)
(* stores as it is: the list of its key is neither appended to nor pruned  *)
(* and no other key's list changes.  An admitted invocation changes the    *)
(* list of its own key only.  Nothing else changes the stored lists.       *)
(***************************************************************************)
C38_Frame ==
  IF Len(invocations') = Len(invocations) + 1
  THEN LET inv == invocations'[Len(invocations')]
       IN /\ inv.verdict = "rejected" => requests' = requests
          /\ inv.verdict = "admitted" =>
               /\ DOMAIN requests' = DOMAIN requests \cup {inv.key}
               /\ \A key \in DOMAIN requests \ {inv.key} :
                    requests'[key] = requests[key]
  ELSE requests' = requests

C38_StoredStateFrame == [][C38_Frame]_<<vars, outside>>

\* Key 10.0.0.1 holds a full list and was rejected at a later time, key
\* "unknown" holds a list of its own: the list of 10.0.0.1 is as it was
C38_Witness ==
  /\ maxRequests = 1
  /\ windowMs = 2
  /\ Len(invocations) = 3
  /\ invocations[1].key = "10.0.0.1" /\ invocations[1].at = 1
  /\ invocations[2].key = "unknown" /\ invocations[2].verdict = "admitted"
  /\ invocations[3].key = "10.0.0.1" /\ invocations[3].verdict = "rejected"
  /\ invocations[3].at = 2
  /\ requests["10.0.0.1"] = <<1>>
  /\ requests["unknown"] = <<invocations[2].at>>

(***************************************************************************)
(* start() called again while earlier calls are still in flight.  A call   *)
(* runs from its guard to `await this.onBeforeStart?.()`, then from        *)
(* `new Server` to bindAsync, then the callback of bindAsync runs; other   *)
(* calls may run between these stretches.                                  *)
(***************************************************************************)
MaxRaceStarts == 3     \* at most this many calls of start()

RaceInit ==
  /\ running = FALSE
  /\ server = 0
  /\ interceptor = FALSE
  /\ services = {}
  /\ healthStatus = mapSet(<<>>, "", SERVING)
  /\ startPc = "idle"
  /\ stopPc = "idle"
  /\ result = "none"
  /\ lifecycle = <<>>
  /\ lastSet = mapSet(<<>>, "", SERVING)
  /\ starts = <<>>
  /\ servers = <<>>
  /\ NoInvocation
  /\ NoTimeout
  /\ NoLimiter
  /\ NoFactory
  /\ NoTable
  /\ NoAmbient
  /\ NoWrap
  /\ NoPipeline
  /\ NoTransformer

\* start() is called: rejected at once, or up to await this.onBeforeStart?.()
RaceStartCall ==
  /\ Len(starts) < MaxRaceStarts
  /\ IF alreadyRunning(running)
     THEN /\ starts' = Append(starts, "refused")
          /\ result' = "gRPC server is already running"
          /\ UNCHANGED lifecycle
     ELSE /\ starts' = Append(starts, "beforeStart")
          /\ lifecycle' = Append(lifecycle, Life("onBeforeStart", running))
          /\ UNCHANGED result
  /\ UNCHANGED <<running, server, interceptor, services, healthStatus, startPc,
                 stopPc, lastSet, servers, besideRace, vars>>

\* The i-th call after the hook: this.server = new Server, the services,
\* addHealthCheckService, this.server.bindAsync
RaceStartBind(i) ==
  /\ i \in DOMAIN starts
  /\ starts[i] = "beforeStart"
  /\ servers' = Append(servers, [by |-> i, bound |-> FALSE])
  /\ server' = Len(servers) + 1
  /\ healthStatus' = mapSet(healthStatus, "__health_check_enabled__", SERVING)
  /\ lifecycle' = Append(lifecycle, Life("bindAsync", running))
  /\ starts' = [starts EXCEPT ![i] = "binding"]
  /\ UNCHANGED <<running, interceptor, services, startPc, stopPc, result,
                 lastSet, besideRace, vars>>

\* The callback of the i-th call's bindAsync
RaceBindDone(i, error) ==
  /\ i \in DOMAIN starts
  /\ starts[i] = "binding"
  /\ IF error
     THEN /\ starts' = [starts EXCEPT ![i] = "rejected"]
          /\ lifecycle' = Append(lifecycle, Life("bind failed", running))
          /\ result' = "start rejected"
          /\ UNCHANGED <<running, servers>>
     ELSE /\ starts' = [starts EXCEPT ![i] = "resolved"]
          /\ running' = TRUE
          /\ servers' = [k \in DOMAIN servers |->
                           IF servers[k].by = i
                           THEN [servers[k] EXCEPT !.bound = TRUE]
                           ELSE servers[k]]
          /\ lifecycle' = afterBind(lifecycle)
          /\ result' = "start resolved"
  /\ UNCHANGED <<server, interceptor, services, healthStatus, startPc, stopPc,
                 lastSet, besideRace, vars>>

RaceNext ==
  \/ RaceStartCall
  \/ \E i \in 1..MaxRaceStarts : RaceStartBind(i)
  \/ \E i \in 1..MaxRaceStarts, error \in BOOLEAN : RaceBindDone(i, error)

RaceSpec == RaceInit /\ [][RaceNext]_<<vars, outside>>

(***************************************************************************)
(* C39.  start() tests the running flag only at the moment it is called,   *)
(* and the flag is set only in the callback of a successful bind.  So a    *)
(* start() called before an earlier one has bound is not rejected: a call  *)
(* is rejected exactly when the flag is set at that moment, every call     *)
(* that is not rejected creates a Server of its own, the adapter refers to *)
(* the Server created last, and the flag, once set, is never tested again  *)
(* by a call already under way.  The guard does not keep the number of     *)
(* Servers at one.                                                         *)
(***************************************************************************)
Started == {i \in DOMAIN starts : starts[i] \in {"binding", "resolved", "rejected"}}

C39_Servers ==
  /\ Len(servers) = Cardinality(Started)
  /\ \A i \in Started :
       Cardinality({k \in DOMAIN servers : servers[k].by = i}) = 1
  /\ server = Len(servers)
  /\ running <=> \E i \in DOMAIN starts : starts[i] = "resolved"
  /\ \A k \in DOMAIN servers : servers[k].bound <=> starts[servers[k].by] = "resolved"

C39_Guard ==
  /\ Len(starts') = Len(starts) + 1 =>
       (starts'[Len(starts')] = "refused" <=> running)
  /\ \A i \in DOMAIN starts :
       (starts[i] = "beforeStart" /\ starts'[i] # "beforeStart") =>
          /\ starts'[i] = "binding"
          /\ Len(servers') = Len(servers) + 1
  /\ running' # running =>
       \E i \in DOMAIN starts : starts[i] = "binding" /\ starts'[i] = "resolved"

C39_StartRace == [](C39_Servers) /\ [][C39_Guard]_<<vars, outside>>

\* Two calls of start(), the second made before the first had bound: neither
\* was rejected, each created a Server, both bound, and the adapter refers to
\* the second Server only
C39_Witness ==
  /\ starts = <<"resolved", "resolved">>
  /\ Len(servers) = 2
  /\ servers[1].bound /\ servers[2].bound
  /\ server = 2
  /\ running
  /\ Lives({"onBeforeStart"}) = 2
  /\ lifecycle[2].ev = "onBeforeStart" /\ ~lifecycle[2].running

====
